---- MODULE Spec2Model ----
(***************************************************************************)
(* Credential-and-session layer of the COMP3133 Employee Management API:   *)
(* login, signup, JWT context resolution, the authorization gate, the      *)
(* protected employee resolvers and the seed script.                        *)
(*                                                                         *)
(* Strings are sequences of one-character strings, so that trim(),         *)
(* toLowerCase() and the regular expressions act on characters.            *)
(***************************************************************************)
EXTENDS Integers, Sequences, FiniteSets, TLC

\* ------------------------------------------------------------------ bounds
MaxTime   == 2      \* the clock runs over 0..MaxTime
MaxUserId == 3      \* credential records ever created (ObjectIds are never reused)
MaxEmpId  == 2      \* employee records addEmployee ever creates, and the ids asked for
MaxIssued == 1      \* distinct tokens ever signed
MaxPending == 2     \* signups in flight between their User.findOne and their User.create

\* ------------------------------------------------------- program constants
JWT_EXPIRES_IN == 2 \* token time-to-live in clock ticks ("7d" in the source)
MIN_SALARY     == 1000
MIN_USERNAME   == 3
MIN_PASSWORD   == 8
MAX_USERNAME   == 30
MIN_NAME       == 2
MAX_NAME       == 50
MAX_TITLE      == 100
DEFAULT_PAGE   == 1
DEFAULT_LIMIT  == 20
MAX_LIMIT      == 100
MAX_RETRIES    == 5 \* connectDB's retries after the first attempt

\* ------------------------------------------------------------ characters
UpperChars == {"A", "B", "C", "D", "E", "F", "G", "H", "I", "J", "K", "L", "M",
               "N", "O", "P", "Q", "R", "S", "T", "U", "V", "W", "X", "Y", "Z"}
LowerChars == {"a", "b", "c", "d", "e", "f", "g", "h", "i", "j", "k", "l", "m",
               "n", "o", "p", "q", "r", "s", "t", "u", "v", "w", "x", "y", "z"}
DigitChars == {"0", "1", "2", "3", "4", "5", "6", "7", "8", "9"}

UpperSeq == <<"A", "B", "C", "D", "E", "F", "G", "H", "I", "J", "K", "L", "M",
             "N", "O", "P", "Q", "R", "S", "T", "U", "V", "W", "X", "Y", "Z">>
LowerSeq == <<"a", "b", "c", "d", "e", "f", "g", "h", "i", "j", "k", "l", "m",
             "n", "o", "p", "q", "r", "s", "t", "u", "v", "w", "x", "y", "z">>

\* String.prototype.toLowerCase on one character
LowerChar(c) ==
    IF c \in UpperChars
      THEN LowerSeq[CHOOSE i \in 1..Len(UpperSeq) : UpperSeq[i] = c]
      ELSE c

toLowerCase(s) == [i \in 1..Len(s) |-> LowerChar(s[i])]

RECURSIVE trimStart(_)
trimStart(s) == IF s # <<>> /\ Head(s) = " " THEN trimStart(Tail(s)) ELSE s

RECURSIVE trimEnd(_)
trimEnd(s) ==
    IF s # <<>> /\ s[Len(s)] = " " THEN trimEnd(SubSeq(s, 1, Len(s) - 1)) ELSE s

\* String.prototype.trim
trim(s) == trimEnd(trimStart(s))

\* ---------------------------------------------------------- utils/errors.js
\* AppError: message, extensions.code, extensions.httpStatus
\* (a message is a tuple of strings: the text and the values spliced into it)
AppError(message, code, httpStatus) ==
    [message |-> message, code |-> code, httpStatus |-> httpStatus]

badInput(message) == AppError(message, "BAD_USER_INPUT", 400)
conflict(message) == AppError(message, "CONFLICT", 409)
notFound(entity)  == AppError(entity, "NOT_FOUND", 404)
unauth            == AppError(<<"You need to be logged in to do that.">>, "UNAUTHENTICATED", 401)

\* no error: the operation returned normally
NoError == AppError(<<>>, "OK", 200)
\* an error that is not an AppError (a rejected store call, a driver error):
\* Apollo reports it with the code INTERNAL_SERVER_ERROR
internalError(message) == AppError(message, "INTERNAL_SERVER_ERROR", 500)

\* ------------------------------------------------------ utils/validators.js
\* requireField without the trim: only !value
requireFieldNoTrim(value) == value = <<>>

\* requireField: !value || String(value).trim() === ""
requireFieldFails(value) == value = <<>> \/ trim(value) = <<>>

requireFieldError(fieldName) == badInput(<<"required", fieldName>>)

AtPositions(s) == {i \in 1..Len(s) : s[i] = "@"}
DotPositions(s) == {i \in 1..Len(s) : s[i] = "."}
EmailChars == UpperChars \cup LowerChars \cup DigitChars \cup {"@", ".", "_", "-"}

\* validator.isEmail: one "@", a non-empty local part, a domain with a dot
\* between two non-empty labels, no character outside the address alphabet
isEmail(s) ==
    /\ Cardinality(AtPositions(s)) = 1
    /\ \A i \in 1..Len(s) : s[i] \in EmailChars
    /\ LET at == CHOOSE i \in AtPositions(s) : TRUE
       IN /\ at > 1
          /\ \E d \in DotPositions(s) : d > at + 1 /\ d < Len(s)
          /\ s[Len(s)] # "."
          /\ s[1] # "."

hasUpper(s) == \E i \in 1..Len(s) : s[i] \in UpperChars
hasLower(s) == \E i \in 1..Len(s) : s[i] \in LowerChars
hasDigit(s) == \E i \in 1..Len(s) : s[i] \in DigitChars

\* validatePassword: the error it throws, NoError when the password passes
validatePassword(password) ==
    IF password = <<>> \/ Len(password) < MIN_PASSWORD
      THEN badInput(<<"Password needs to be at least 8 characters.">>)
    ELSE IF ~hasUpper(password)
      THEN badInput(<<"Password needs at least one uppercase letter.">>)
    ELSE IF ~hasLower(password)
      THEN badInput(<<"Password needs at least one lowercase letter.">>)
    ELSE IF ~hasDigit(password)
      THEN badInput(<<"Password needs at least one number.">>)
    ELSE NoError

\* /^[a-zA-Z0-9_]+$/
matchesUsernameRegex(s) ==
    /\ s # <<>>
    /\ \A i \in 1..Len(s) : s[i] \in UpperChars \cup LowerChars \cup DigitChars \cup {"_"}

\* ------------------------------------------------------------------ bcryptjs
\* The password field of a record is a string: either a bcrypt hash (made of
\* the salt and the digest of the plaintext under that salt) or any other
\* string, stored as it was given.

bcryptHash(plaintext, salt) == [alg |-> "bcrypt", salt |-> salt, pw |-> plaintext]
rawString(s)               == [alg |-> "raw", salt |-> 0, pw |-> s]
\* the field was not selected by the query (select: false)
notSelected                == [alg |-> "unselected", salt |-> 0, pw |-> <<>>]

isBcryptHash(h) == h.alg = "bcrypt"

\* bcrypt.compare(candidate, hash): false when hash is not a 60-character
\* bcrypt string, else re-hash the candidate under the salt of the hash
bcryptCompare(candidate, hash) ==
    IF ~isBcryptHash(hash) THEN FALSE
    ELSE bcryptHash(candidate, hash.salt) = hash

\* -------------------------------------------------------------- jsonwebtoken
\* A compact token: header (algorithm), claims (userId, iat, exp), signature.
\* The signature is the keyed hash of header and claims; without the key no
\* party can produce the hash of other claims.
Keys      == {"k1", "k2"}          \* values JWT_SECRET takes over restarts
ForgedKey == "evil"                \* a key the server never uses

HS256(key, userId, iat, exp) ==
    [key |-> key, userId |-> userId, iat |-> iat, exp |-> exp]

\* ObjectId.toJSON: the 24-digit hex string of the id, written <<"hex", n>>;
\* <<"hex", 0>> stands for a string that is no ObjectId
toHexString(id) == <<"hex", id>>
NotAnObjectId   == <<"hex", 0>>
\* mongoose cast of a query value to ObjectId: 0 when the cast fails
castObjectId(hex) == IF hex[1] = "hex" /\ hex[2] >= 1 THEN hex[2] ELSE 0

NoSignature == HS256("", NotAnObjectId, 0, 0)

\* what is not three base64url segments
GarbageToken ==
    [wellFormed |-> FALSE, userId |-> NotAnObjectId, iat |-> 0, exp |-> 0, sig |-> NoSignature]

\* jwt.sign({ userId }, secret, { expiresIn })
jwtSign(userId, key, expiresIn, clock) ==
    [wellFormed |-> TRUE,
     userId     |-> toHexString(userId),
     iat        |-> clock,
     exp        |-> clock + expiresIn,
     sig        |-> HS256(key, toHexString(userId), clock, clock + expiresIn)]

\* jwt.decode in the place of jwt.verify: no signature check
jwtDecodeOnly(token, key, clock) ==
    IF ~token.wellFormed THEN "jwt malformed"
    ELSE IF clock >= token.exp THEN "jwt expired"
    ELSE ""

\* a verification that reports every failure of a well-formed token alike
jwtVerifyOneMessage(token, key, clock) ==
    IF ~token.wellFormed THEN "jwt malformed"
    ELSE IF token.sig # HS256(key, token.userId, token.iat, token.exp)
      THEN "invalid signature"
    ELSE IF clock >= token.exp THEN "invalid signature"
    ELSE ""

\* jwt.verify(token, secret): the message of the error it throws, "" when the
\* token verifies; the checks run in the order of the library: structure,
\* signature, expiry
jwtVerifyError(token, key, clock) ==
    IF ~token.wellFormed THEN "jwt malformed"
    ELSE IF token.sig # HS256(key, token.userId, token.iat, token.exp)
      THEN "invalid signature"
    ELSE IF clock >= token.exp THEN "jwt expired"
    ELSE ""

\* --------------------------------------------------- Authorization header
\* The header value is a sequence of symbols: scheme words, spaces and a
\* token; the empty sequence is the absent header (authorization || "").
Word(w)     == [w |-> w, tok |-> GarbageToken]
Space       == Word(" ")
TokenSym(t) == [w |-> "jwt", tok |-> t]

RECURSIVE trimStartSym(_)
trimStartSym(h) == IF h # <<>> /\ Head(h) = Space THEN trimStartSym(Tail(h)) ELSE h

RECURSIVE trimEndSym(_)
trimEndSym(h) ==
    IF h # <<>> /\ h[Len(h)] = Space THEN trimEndSym(SubSeq(h, 1, Len(h) - 1)) ELSE h

\* authHeader.startsWith("Bearer ")
startsWithBearer(h) == Len(h) >= 2 /\ h[1] = Word("Bearer") /\ h[2] = Space

\* authHeader.slice(7).trim()
bearerToken(h) == trimEndSym(trimStartSym(SubSeq(h, 3, Len(h))))

\* the string handed to jwt.verify, as a token: anything that is not one
\* token symbol is not a well-formed token
asToken(symbols) ==
    IF Len(symbols) = 1 /\ symbols[1].w = "jwt" THEN symbols[1].tok ELSE GarbageToken

\* ------------------------------------------------------------ models/User.js
VARIABLES
    users,        \* the users collection: the persisted credential records
    nextUserId,   \* the next ObjectId of the users collection
    employees,    \* the employees collection
    nextEmpId,    \* the next ObjectId of the employees collection
    secret,       \* process.env.JWT_SECRET of the running server
    now,          \* the clock
    dbUp,         \* whether the store answers calls
    issued,       \* every token signToken has returned
    pending,      \* signups between their User.findOne and their User.create
    seedPc,       \* where the seed script stands
    last,         \* the request that completed last: what came in, what went out
    loginErrs,    \* what the logins so far that got past the blank-field check
                  \* and met no record or a wrong password were answered
    boot          \* where startServer stands: connectDB, its retries, listening

vars == <<users, nextUserId, employees, nextEmpId, secret, now, dbUp, issued,
          pending, seedPc, last, loginErrs, boot>>

\* the null document
NoUser ==
    [_id |-> 0, username |-> <<>>, email |-> <<>>, password |-> notSelected,
     is_active |-> FALSE]

\* findOne: the first matching document in natural (insertion) order
firstUser(matches) ==
    IF matches = {} THEN NoUser
    ELSE CHOOSE u \in matches : \A v \in matches : u._id <= v._id

\* password has select: false: queries return documents without it
withoutPassword(u) == IF u = NoUser THEN NoUser ELSE [u EXCEPT !.password = notSelected]

\* a lookup that lower-cases the identifier for the username as well
findByCredentialAnyCase(U, usernameOrEmail) ==
    firstUser({u \in U : \/ u.username = trim(toLowerCase(usernameOrEmail))
                         \/ u.email = trim(toLowerCase(usernameOrEmail))})

\* userSchema.statics.findByCredential: username OR lower-cased email,
\* .select("+password"). Mongoose casts the values of a filter through the
\* schema, setters included: trim on username, lowercase and trim on email.
findByCredential(U, usernameOrEmail) ==
    firstUser({u \in U : \/ u.username = trim(usernameOrEmail)
                         \/ u.email = trim(toLowerCase(usernameOrEmail))})

\* User.findById
findById(U, id) == withoutPassword(firstUser({u \in U : u._id = id}))

\* userSchema.methods.comparePassword
comparePassword(user, candidate) == bcryptCompare(candidate, user.password)

\* -------------------------------------------------------- middleware/auth.js
\* what buildContext gives: the user of the context, the message it logs, the
\* calls it made, and the error it throws (NoError: it returns)
Context(user, diag, trace) ==
    [user |-> user, diag |-> diag, trace |-> trace, err |-> NoError]

\* buildContext without the is_active test
buildContextIgnoresActive(h, U, key, clock, up) ==
    IF ~startsWithBearer(h) THEN Context(NoUser, "", <<>>)
    ELSE LET token == bearerToken(h) IN
    IF token = <<>> THEN Context(NoUser, "", <<>>)
    ELSE LET verr == jwtVerifyError(asToken(token), key, clock) IN
    IF verr # "" THEN Context(NoUser, verr, <<"jwt.verify">>)
    ELSE LET id == castObjectId(asToken(token).userId) IN
    IF id = 0
      THEN Context(NoUser, "Cast to ObjectId failed", <<"jwt.verify", "User.findById">>)
    ELSE IF ~up
      THEN Context(NoUser, "store call failed", <<"jwt.verify", "User.findById">>)
    ELSE Context(findById(U, id), "", <<"jwt.verify", "User.findById">>)

\* buildContext letting the error of jwt.verify escape instead of catching it
buildContextThrows(h, U, key, clock, up) ==
    IF ~startsWithBearer(h) THEN Context(NoUser, "", <<>>)
    ELSE LET token == bearerToken(h) IN
    IF token = <<>> THEN Context(NoUser, "", <<>>)
    ELSE LET verr == jwtVerifyError(asToken(token), key, clock) IN
    IF verr # ""
      THEN [Context(NoUser, verr, <<"jwt.verify">>) EXCEPT !.err = internalError(<<verr>>)]
    ELSE LET id == castObjectId(asToken(token).userId) IN
    IF id = 0
      THEN Context(NoUser, "Cast to ObjectId failed", <<"jwt.verify", "User.findById">>)
    ELSE IF ~up
      THEN Context(NoUser, "store call failed", <<"jwt.verify", "User.findById">>)
    ELSE LET user == findById(U, id) IN
    IF user = NoUser \/ ~user.is_active
      THEN Context(NoUser, "", <<"jwt.verify", "User.findById">>)
    ELSE Context(user, "", <<"jwt.verify", "User.findById">>)

\* buildContext handing out a fresh token with every verified request
buildContextRefresh(h, U, key, clock, up) ==
    IF ~startsWithBearer(h) THEN Context(NoUser, "", <<>>)
    ELSE LET token == bearerToken(h) IN
    IF token = <<>> THEN Context(NoUser, "", <<>>)
    ELSE LET verr == jwtVerifyError(asToken(token), key, clock) IN
    IF verr # "" THEN Context(NoUser, verr, <<"jwt.verify">>)
    ELSE LET id == castObjectId(asToken(token).userId) IN
    IF id = 0
      THEN Context(NoUser, "Cast to ObjectId failed", <<"jwt.verify", "User.findById">>)
    ELSE IF ~up
      THEN Context(NoUser, "store call failed", <<"jwt.verify", "User.findById">>)
    ELSE LET user == findById(U, id) IN
    IF user = NoUser \/ ~user.is_active
      THEN Context(NoUser, "", <<"jwt.verify", "User.findById">>)
    ELSE Context(user, "", <<"jwt.verify", "User.findById", "jwt.sign">>)

\* buildContext: the context of a request with Authorization header h, the
\* message logger.debug emits ("" when none) and the calls made
buildContext(h, U, key, clock, up) ==
    IF ~startsWithBearer(h) THEN Context(NoUser, "", <<>>)
    ELSE LET token == bearerToken(h) IN
    IF token = <<>> THEN Context(NoUser, "", <<>>)
    ELSE LET verr == jwtVerifyError(asToken(token), key, clock) IN
    IF verr # "" THEN Context(NoUser, verr, <<"jwt.verify">>)
    ELSE LET id == castObjectId(asToken(token).userId) IN
    IF id = 0
      THEN Context(NoUser, "Cast to ObjectId failed", <<"jwt.verify", "User.findById">>)
    ELSE IF ~up
      THEN Context(NoUser, "store call failed", <<"jwt.verify", "User.findById">>)
    ELSE LET user == findById(U, id) IN
    IF user = NoUser \/ ~user.is_active
      THEN Context(NoUser, "", <<"jwt.verify", "User.findById">>)
    ELSE Context(user, "", <<"jwt.verify", "User.findById">>)

\* requireAuth testing the context instead of context.user
requireAuthNeverThrows(context) == [err |-> NoError, user |-> context.user]

\* requireAuth: the error thrown (NoError when it returns) and the value returned
requireAuth(context) ==
    IF context.user = NoUser THEN [err |-> unauth, user |-> NoUser]
    ELSE [err |-> NoError, user |-> context.user]

\* signToken putting the id under another claim name, so the token carries no
\* userId
signTokenOtherClaim(userId, key, clock) ==
    [jwtSign(userId, key, JWT_EXPIRES_IN, clock)
       EXCEPT !.userId = NotAnObjectId,
              !.sig = HS256(key, NotAnObjectId, clock, clock + JWT_EXPIRES_IN)]

\* signToken
signToken(userId, key, clock) == jwtSign(userId, key, JWT_EXPIRES_IN, clock)

\* User.create / insertMany: the schema setters (trim; lowercase + trim)
castUserDoc(doc) ==
    [username |-> trim(doc.username),
     email    |-> trim(toLowerCase(doc.email)),
     password |-> doc.password]

\* the schema validators of userSchema
validUserDoc(doc) ==
    /\ Len(doc.username) >= MIN_USERNAME
    /\ Len(doc.username) <= MAX_USERNAME
    /\ matchesUsernameRegex(doc.username)
    /\ isEmail(doc.email)
    /\ Len(doc.password) >= MIN_PASSWORD

\* the unique indexes on username and on email (unique: true)
violatesUnique(U, doc) ==
    \E u \in U : u.username = doc.username \/ u.email = doc.email

\* the document as persisted; stored is the value of its password field
persisted(id, doc, stored) ==
    [_id |-> id, username |-> doc.username, email |-> doc.email,
     password |-> stored, is_active |-> TRUE]

\* a save hook that leaves the password as it was given
preSaveRaw(doc, salt) == rawString(doc.password)

\* userSchema.pre("save"): a new document has its password modified, so the
\* hook replaces it by its bcrypt hash under a fresh salt
preSave(doc, salt) == bcryptHash(doc.password, salt)

\* User.create on a collection whose unique indexes were never built
userCreateNoIndex(U, id, rawDoc, salt) ==
    LET doc == castUserDoc(rawDoc) IN
    IF ~validUserDoc(doc)
      THEN [users |-> U, user |-> NoUser, err |-> internalError(<<"ValidationError">>)]
    ELSE LET u == persisted(id, doc, preSave(doc, salt)) IN
         [users |-> U \cup {u}, user |-> u, err |-> NoError]

\* User.create written as an upsert on the username
userCreateUpsert(U, id, rawDoc, salt) ==
    LET doc == castUserDoc(rawDoc) IN
    IF ~validUserDoc(doc)
      THEN [users |-> U, user |-> NoUser, err |-> internalError(<<"ValidationError">>)]
    ELSE LET u == persisted(id, doc, preSave(doc, salt)) IN
         [users |-> {v \in U : v.username # doc.username} \cup {u},
          user |-> u, err |-> NoError]

\* User.create(doc): validate, run the save hook, insert.
\* Gives the collection afterwards, the created document and the error.
userCreate(U, id, rawDoc, salt) ==
    LET doc == castUserDoc(rawDoc) IN
    IF ~validUserDoc(doc)
      THEN [users |-> U, user |-> NoUser, err |-> internalError(<<"ValidationError">>)]
    ELSE IF violatesUnique(U, doc)
      THEN [users |-> U, user |-> NoUser, err |-> internalError(<<"E11000 duplicate key">>)]
    ELSE LET u == persisted(id, doc, preSave(doc, salt)) IN
         [users |-> U \cup {u}, user |-> u, err |-> NoError]

\* User.insertMany(docs): validates every document, runs no save middleware,
\* and inserts in order up to the first duplicate-key error
RECURSIVE insertOrdered(_, _, _)
insertOrdered(U, id, docs) ==
    IF docs = <<>> THEN [users |-> U, err |-> NoError]
    ELSE LET doc == castUserDoc(Head(docs)) IN
         IF violatesUnique(U, doc)
           THEN [users |-> U, err |-> internalError(<<"E11000 duplicate key">>)]
         ELSE insertOrdered(U \cup {persisted(id, doc, rawString(doc.password))},
                            id + 1, Tail(docs))

userInsertMany(U, id, docs) ==
    IF \E i \in 1..Len(docs) : ~validUserDoc(castUserDoc(docs[i]))
      THEN [users |-> U, err |-> internalError(<<"ValidationError">>)]
    ELSE insertOrdered(U, id, docs)

\* -------------------------------------------------------- models/Employee.js
DigitSeq == <<"0", "1", "2", "3", "4", "5", "6", "7", "8", "9">>
digitValue(c) == (CHOOSE i \in 1..Len(DigitSeq) : DigitSeq[i] = c) - 1
twoDigits(s, i) == 10 * digitValue(s[i]) + digitValue(s[i + 1])

\* validator.isISO8601 on a calendar date: YYYY-MM-DD
isISO8601(s) ==
    /\ Len(s) = 10
    /\ s[5] = "-" /\ s[8] = "-"
    /\ \A i \in {1, 2, 3, 4, 6, 7, 9, 10} : s[i] \in DigitChars
    /\ twoDigits(s, 6) \in 1..12
    /\ twoDigits(s, 9) \in 1..31

\* new Date(dateStr) for a calendar date
newDate(s) ==
    [y |-> 100 * twoDigits(s, 1) + twoDigits(s, 3), m |-> twoDigits(s, 6),
     d |-> twoDigits(s, 9)]

NoDate == [y |-> 0, m |-> 0, d |-> 0]

\* the null document
NoEmployee ==
    [_id |-> 0, first_name |-> <<>>, last_name |-> <<>>, email |-> <<>>,
     gender |-> <<>>, designation |-> <<>>, salary |-> 0, date_of_joining |-> NoDate,
     department |-> <<>>, employee_photo |-> <<>>]

GENDERS == {<<"M", "a", "l", "e">>, <<"F", "e", "m", "a", "l", "e">>, <<"O", "t", "h", "e", "r">>}

\* the schema setters of employeeSchema (trim; lowercase + trim)
castEmployeeDoc(doc) ==
    [doc EXCEPT !.first_name = trim(@), !.last_name = trim(@),
                !.email = trim(toLowerCase(@)), !.designation = trim(@),
                !.department = trim(@)]

\* the schema validators of employeeSchema
validEmployeeDoc(doc) ==
    /\ Len(doc.first_name) \in MIN_NAME..MAX_NAME
    /\ Len(doc.last_name) \in MIN_NAME..MAX_NAME
    /\ isEmail(doc.email)
    /\ doc.gender \in GENDERS
    /\ Len(doc.designation) \in 1..MAX_TITLE
    /\ doc.salary >= MIN_SALARY
    /\ doc.date_of_joining # NoDate
    /\ Len(doc.department) \in 1..MAX_TITLE

\* the unique index on email, among the documents other than id
emailInUse(E, email, id) == \E e \in E : e.email = email /\ e._id # id

firstEmployee(matches) ==
    IF matches = {} THEN NoEmployee
    ELSE CHOOSE e \in matches : \A f \in matches : e._id <= f._id

\* Employee.findById
employeeById(E, id) == firstEmployee({e \in E : e._id = id})

\* Employee.create(doc): the collection afterwards, the document, the error
employeeCreate(E, id, rawDoc) ==
    LET doc == [castEmployeeDoc(rawDoc) EXCEPT !._id = id] IN
    IF ~validEmployeeDoc(doc)
      THEN [employees |-> E, emp |-> NoEmployee, err |-> internalError(<<"ValidationError">>)]
    ELSE IF emailInUse(E, doc.email, id)
      THEN [employees |-> E, emp |-> NoEmployee, err |-> internalError(<<"E11000 duplicate key">>)]
    ELSE [employees |-> E \cup {doc}, emp |-> doc, err |-> NoError]

\* Employee.insertMany(docs): validates every document, then inserts in order
\* up to the first duplicate-key error
RECURSIVE insertEmployeesOrdered(_, _, _)
insertEmployeesOrdered(E, id, docs) ==
    IF docs = <<>> THEN [employees |-> E, err |-> NoError]
    ELSE LET doc == [castEmployeeDoc(Head(docs)) EXCEPT !._id = id] IN
         IF emailInUse(E, doc.email, id)
           THEN [employees |-> E, err |-> internalError(<<"E11000 duplicate key">>)]
         ELSE insertEmployeesOrdered(E \cup {doc}, id + 1, Tail(docs))

employeeInsertMany(E, id, docs) ==
    IF \E i \in 1..Len(docs) : ~validEmployeeDoc(castEmployeeDoc(docs[i]))
      THEN [employees |-> E, err |-> internalError(<<"ValidationError">>)]
    ELSE insertEmployeesOrdered(E, id, docs)

\* sort({ created_at: -1 }): newest first; ids grow with creation
RECURSIVE newestFirst(_)
newestFirst(S) ==
    IF S = {} THEN <<>>
    ELSE LET e == CHOOSE x \in S : \A y \in S : x._id >= y._id
         IN <<e>> \o newestFirst(S \ {e})

\* .skip(n).limit(m) of a cursor
skipLimit(seq, n, m) ==
    IF n >= Len(seq) THEN <<>>
    ELSE SubSeq(seq, n + 1, IF n + m <= Len(seq) THEN n + m ELSE Len(seq))

\* { $regex: pattern, $options: "i" } for a pattern of plain characters:
\* the pattern occurs in the field, letter case ignored
regexMatchesIgnoreCase(field, pattern) ==
    \E i \in 1..(Len(field) - Len(pattern) + 1) :
        toLowerCase(SubSeq(field, i, i + Len(pattern) - 1)) = toLowerCase(pattern)

SAMPLE_EMPLOYEES ==
    <<
       [first_name |-> <<"A", "l", "i", "c", "e">>, last_name |-> <<"J", "o", "h", "n", "s", "o", "n">>,
        email |-> <<"a", "l", "i", "c", "e", ".", "j", "@", "c", "o", "m", "p", "a", "n", "y", ".", "c", "o", "m">>,
        gender |-> <<"F", "e", "m", "a", "l", "e">>, designation |-> <<"S", "o", "f", "t", "w", "a", "r", "e", " ", "E", "n", "g", "i", "n", "e", "e", "r">>,
        salary |-> 85000, date_of_joining |-> <<"2", "0", "2", "2", "-", "0", "3", "-", "1", "5">>,
        department |-> <<"E", "n", "g", "i", "n", "e", "e", "r", "i", "n", "g">>, employee_photo |-> <<>>],
       [first_name |-> <<"B", "o", "b">>, last_name |-> <<"S", "m", "i", "t", "h">>,
        email |-> <<"b", "o", "b", ".", "s", "m", "i", "t", "h", "@", "c", "o", "m", "p", "a", "n", "y", ".", "c", "o", "m">>,
        gender |-> <<"M", "a", "l", "e">>, designation |-> <<"S", "e", "n", "i", "o", "r", " ", "S", "o", "f", "t", "w", "a", "r", "e", " ", "E", "n", "g", "i", "n", "e", "e", "r">>,
        salary |-> 110000, date_of_joining |-> <<"2", "0", "2", "0", "-", "0", "7", "-", "0", "1">>,
        department |-> <<"E", "n", "g", "i", "n", "e", "e", "r", "i", "n", "g">>, employee_photo |-> <<>>],
       [first_name |-> <<"C", "a", "r", "o", "l">>, last_name |-> <<"D", "a", "v", "i", "s">>,
        email |-> <<"c", "a", "r", "o", "l", ".", "d", "@", "c", "o", "m", "p", "a", "n", "y", ".", "c", "o", "m">>,
        gender |-> <<"F", "e", "m", "a", "l", "e">>, designation |-> <<"P", "r", "o", "d", "u", "c", "t", " ", "M", "a", "n", "a", "g", "e", "r">>,
        salary |-> 95000, date_of_joining |-> <<"2", "0", "2", "1", "-", "1", "1", "-", "2", "0">>,
        department |-> <<"P", "r", "o", "d", "u", "c", "t">>, employee_photo |-> <<>>],
       [first_name |-> <<"D", "a", "v", "i", "d">>, last_name |-> <<"L", "e", "e">>,
        email |-> <<"d", "a", "v", "i", "d", ".", "l", "e", "e", "@", "c", "o", "m", "p", "a", "n", "y", ".", "c", "o", "m">>,
        gender |-> <<"M", "a", "l", "e">>, designation |-> <<"U", "X", " ", "D", "e", "s", "i", "g", "n", "e", "r">>,
        salary |-> 78000, date_of_joining |-> <<"2", "0", "2", "3", "-", "0", "1", "-", "1", "0">>,
        department |-> <<"D", "e", "s", "i", "g", "n">>, employee_photo |-> <<>>],
       [first_name |-> <<"E", "v", "a">>, last_name |-> <<"M", "a", "r", "t", "i", "n", "e", "z">>,
        email |-> <<"e", "v", "a", ".", "m", "@", "c", "o", "m", "p", "a", "n", "y", ".", "c", "o", "m">>,
        gender |-> <<"F", "e", "m", "a", "l", "e">>, designation |-> <<"D", "e", "v", "O", "p", "s", " ", "E", "n", "g", "i", "n", "e", "e", "r">>,
        salary |-> 92000, date_of_joining |-> <<"2", "0", "2", "2", "-", "0", "8", "-", "0", "5">>,
        department |-> <<"E", "n", "g", "i", "n", "e", "e", "r", "i", "n", "g">>, employee_photo |-> <<>>],
       [first_name |-> <<"F", "r", "a", "n", "k">>, last_name |-> <<"W", "i", "l", "s", "o", "n">>,
        email |-> <<"f", "r", "a", "n", "k", ".", "w", "@", "c", "o", "m", "p", "a", "n", "y", ".", "c", "o", "m">>,
        gender |-> <<"M", "a", "l", "e">>, designation |-> <<"D", "a", "t", "a", " ", "A", "n", "a", "l", "y", "s", "t">>,
        salary |-> 72000, date_of_joining |-> <<"2", "0", "2", "3", "-", "0", "4", "-", "1", "7">>,
        department |-> <<"A", "n", "a", "l", "y", "t", "i", "c", "s">>, employee_photo |-> <<>>] >>

\* ------------------------------------------------------ graphql/resolvers.js
CredentialsMismatch ==
    badInput(<<"Those credentials don't match anything in our system. Double-check and try again.">>)
AccountDeactivated ==
    badInput(<<"This account has been deactivated. Reach out to support if that's unexpected.">>)

\* what a resolver gives back: the error thrown (NoError when it returns), the
\* calls it made, and the parts of its return value
Result(err, trace, token, user, emps, total) ==
    [err |-> err, trace |-> trace, token |-> token, user |-> user,
     emps |-> emps, total |-> total]

AuthResult(err, trace, token, user) == Result(err, trace, token, user, <<>>, 0)

\* type User with a password field added
UserTypeWithPassword(doc) == doc

\* type User of typeDefs: what execution serialises of a document a resolver
\* returned as a User; the type has no password field
UserType(doc) == [doc EXCEPT !.password = notSelected]

\* the data of the response to the caller, from what the resolver returned
response(res) == [res EXCEPT !.user = UserType(res.user)]

\* the call appears among the calls a request made
calls(trace, name) == \E i \in 1..Len(trace) : trace[i] = name

\* an argument that is null or left out of the request
Missing == <<"null">>

\* login(usernameOrEmail: String!, password: String!): execution rejects a
\* request whose argument is null or left out before any resolver runs, as a
\* variable that fails coercion or as a document that fails validation
nonNullRejected(viaVariables) ==
    AppError(<<"String! must not be null">>,
             IF viaVariables THEN "BAD_USER_INPUT" ELSE "GRAPHQL_VALIDATION_FAILED", 400)

\* Query.login telling the caller that no record matched
loginNamesMissingRecord(U, key, clock, up, usernameOrEmail, password) ==
    IF requireFieldFails(usernameOrEmail)
      THEN AuthResult(requireFieldError("usernameOrEmail"), <<>>, GarbageToken, NoUser)
    ELSE IF requireFieldFails(password)
      THEN AuthResult(requireFieldError("password"), <<>>, GarbageToken, NoUser)
    ELSE IF ~up
      THEN AuthResult(internalError(<<"store call failed">>),
                      <<"User.findByCredential">>, GarbageToken, NoUser)
    ELSE LET user == findByCredential(U, usernameOrEmail) IN
    IF user = NoUser
      THEN AuthResult(badInput(<<"No account with that username or email.">>),
                      <<"User.findByCredential">>, GarbageToken, NoUser)
    ELSE IF ~comparePassword(user, password)
      THEN AuthResult(CredentialsMismatch,
                      <<"User.findByCredential", "bcrypt.compare">>, GarbageToken, NoUser)
    ELSE IF ~user.is_active
      THEN AuthResult(AccountDeactivated,
                      <<"User.findByCredential", "bcrypt.compare">>, GarbageToken, NoUser)
    ELSE AuthResult(NoError,
                    <<"User.findByCredential", "bcrypt.compare", "jwt.sign">>,
                    signToken(user._id, key, clock), user)

\* Query.login testing is_active before the password
loginActiveFirst(U, key, clock, up, usernameOrEmail, password) ==
    IF requireFieldFails(usernameOrEmail)
      THEN AuthResult(requireFieldError("usernameOrEmail"), <<>>, GarbageToken, NoUser)
    ELSE IF requireFieldFails(password)
      THEN AuthResult(requireFieldError("password"), <<>>, GarbageToken, NoUser)
    ELSE IF ~up
      THEN AuthResult(internalError(<<"store call failed">>),
                      <<"User.findByCredential">>, GarbageToken, NoUser)
    ELSE LET user == findByCredential(U, usernameOrEmail) IN
    IF user = NoUser
      THEN AuthResult(CredentialsMismatch, <<"User.findByCredential">>, GarbageToken, NoUser)
    ELSE IF ~user.is_active
      THEN AuthResult(AccountDeactivated, <<"User.findByCredential">>, GarbageToken, NoUser)
    ELSE IF ~comparePassword(user, password)
      THEN AuthResult(CredentialsMismatch,
                      <<"User.findByCredential", "bcrypt.compare">>, GarbageToken, NoUser)
    ELSE AuthResult(NoError,
                    <<"User.findByCredential", "bcrypt.compare", "jwt.sign">>,
                    signToken(user._id, key, clock), user)

\* a login without the test of is_active
loginNoActiveTest(U, key, clock, up, usernameOrEmail, password) ==
    IF requireFieldFails(usernameOrEmail)
      THEN AuthResult(requireFieldError("usernameOrEmail"), <<>>, GarbageToken, NoUser)
    ELSE IF requireFieldFails(password)
      THEN AuthResult(requireFieldError("password"), <<>>, GarbageToken, NoUser)
    ELSE IF ~up
      THEN AuthResult(internalError(<<"store call failed">>),
                      <<"User.findByCredential">>, GarbageToken, NoUser)
    ELSE LET user == findByCredential(U, usernameOrEmail) IN
    IF user = NoUser
      THEN AuthResult(CredentialsMismatch, <<"User.findByCredential">>, GarbageToken, NoUser)
    ELSE IF ~comparePassword(user, password)
      THEN AuthResult(CredentialsMismatch,
                      <<"User.findByCredential", "bcrypt.compare">>, GarbageToken, NoUser)
    ELSE AuthResult(NoError,
                    <<"User.findByCredential", "bcrypt.compare", "jwt.sign">>,
                    signToken(user._id, key, clock), user)

\* Query.login
login(U, key, clock, up, usernameOrEmail, password) ==
    IF requireFieldFails(usernameOrEmail)
      THEN AuthResult(requireFieldError("usernameOrEmail"), <<>>, GarbageToken, NoUser)
    ELSE IF requireFieldFails(password)
      THEN AuthResult(requireFieldError("password"), <<>>, GarbageToken, NoUser)
    ELSE IF ~up
      THEN AuthResult(internalError(<<"store call failed">>),
                      <<"User.findByCredential">>, GarbageToken, NoUser)
    ELSE LET user == findByCredential(U, usernameOrEmail) IN
    IF user = NoUser
      THEN AuthResult(CredentialsMismatch, <<"User.findByCredential">>, GarbageToken, NoUser)
    ELSE IF ~comparePassword(user, password)
      THEN AuthResult(CredentialsMismatch,
                      <<"User.findByCredential", "bcrypt.compare">>, GarbageToken, NoUser)
    ELSE IF ~user.is_active
      THEN AuthResult(AccountDeactivated,
                      <<"User.findByCredential", "bcrypt.compare">>, GarbageToken, NoUser)
    ELSE AuthResult(NoError,
                    <<"User.findByCredential", "bcrypt.compare", "jwt.sign">>,
                    signToken(user._id, key, clock), user)

\* Query.me
me(context) ==
    LET gate == requireAuth(context) IN
    AuthResult(gate.err, <<"requireAuth">>, GarbageToken, gate.user)

\* Mutation.signup up to and including the User.findOne pre-check: the error
\* thrown, NoError when the handler goes on to User.create
signupCheck(U, up, username, email, password) ==
    IF requireFieldFails(username) THEN requireFieldError("username")
    ELSE IF requireFieldFails(email) THEN requireFieldError("email")
    ELSE IF requireFieldFails(password) THEN requireFieldError("password")
    ELSE IF ~isEmail(email) THEN badInput(<<"doesn't look like a valid email address.">>)
    ELSE IF validatePassword(password) # NoError THEN validatePassword(password)
    ELSE IF Len(username) < MIN_USERNAME
      THEN badInput(<<"Username must be at least 3 characters.">>)
    ELSE IF ~matchesUsernameRegex(username)
      THEN badInput(<<"Username can only have letters, numbers, and underscores.">>)
    ELSE IF ~up THEN internalError(<<"store call failed">>)
    ELSE LET taken == firstUser({u \in U : \/ u.username = trim(username)
                                           \/ u.email = trim(toLowerCase(email))})
         IN IF taken = NoUser THEN NoError
            ELSE IF taken.username = trim(username)
              THEN conflict(<<"That username is already taken.">>)
            ELSE conflict(<<"That email is already registered.">>)

\* the store calls signup has made when its pre-check part throws err: the
\* validators throw before User.findOne is reached
signupCheckTrace(err) == IF err.code = "BAD_USER_INPUT" THEN <<>> ELSE <<"User.findOne">>

\* Mutation.signup from User.create on
signupCreate(U, id, up, salt, username, email, password) ==
    IF ~up
      THEN [users |-> U, user |-> NoUser, err |-> internalError(<<"store call failed">>)]
    ELSE userCreate(U, id,
                    [username |-> trim(username), email |-> trim(email),
                     password |-> password],
                    salt)

\* ------------------------------------------- protected resolvers (employees)
\* An optional GraphQL argument: left out (undefined), null, or a value; a
\* string value is carried in s, a number in n.
Undefined == [k |-> "undefined", s |-> <<>>, n |-> 0]
Null      == [k |-> "null", s |-> <<>>, n |-> 0]
Str(s)    == [k |-> "value", s |-> s, n |-> 0]
Num(n)    == [k |-> "value", s |-> <<>>, n |-> n]

\* JavaScript truthiness of a string argument and of a number argument
truthyStr(v) == v.k = "value" /\ v.s # <<>>
truthyNum(v) == v.k = "value" /\ v.n # 0

\* what an employee resolver leaves behind: its result and the collection
EmpOutcome(res, E) == [res |-> res, employees |-> E]

EmpResult(err, trace, emps, total) == Result(err, trace, GarbageToken, NoUser, emps, total)

\* a salary check that tests only for a number
validateSalaryNoMin(salary) ==
    IF salary.k # "value" THEN badInput(<<"Salary has to be a valid number.">>)
    ELSE NoError

\* validateSalary of a number argument: parseFloat(null) is NaN
validateSalary(salary) ==
    IF salary.k # "value" THEN badInput(<<"Salary has to be a valid number.">>)
    ELSE IF salary.n < MIN_SALARY THEN badInput(<<"Salary must be at least $1,000.">>)
    ELSE NoError

\* validateDate: String(null) is no ISO 8601 date
validateDate(dateStr, fieldName) ==
    IF dateStr.k # "value" \/ ~isISO8601(dateStr.s)
      THEN badInput(<<"needs to be a real date", fieldName>>)
      ELSE NoError

\* validateObjectId: an id is written as its number, 0 for a string that is
\* not 24 hex digits
validateObjectId(id, fieldName) ==
    IF id = 0 THEN badInput(<<"is not a valid ID.", fieldName>>) ELSE NoError

storeFailed == internalError(<<"store call failed">>)

\* Query.getAllEmployees; page and limit default when left out, and null
\* counts as 0 in Math.max
getAllEmployees(E, up, context, page, limit) ==
    IF requireAuth(context).err # NoError
      THEN EmpOutcome(EmpResult(unauth, <<"requireAuth">>, <<>>, 0), E)
    ELSE LET p == IF page.k = "undefined" THEN DEFAULT_PAGE ELSE page.n
             l == IF limit.k = "undefined" THEN DEFAULT_LIMIT ELSE limit.n
             safePage  == IF p > 1 THEN p ELSE 1
             safeLimit == IF l < 1 THEN 1 ELSE IF l > MAX_LIMIT THEN MAX_LIMIT ELSE l
             skip      == (safePage - 1) * safeLimit
             calls2    == <<"requireAuth", "Employee.find", "Employee.countDocuments">>
         IN IF ~up THEN EmpOutcome(EmpResult(storeFailed, calls2, <<>>, 0), E)
            ELSE EmpOutcome(EmpResult(NoError, calls2,
                                      skipLimit(newestFirst(E), skip, safeLimit),
                                      Cardinality(E)), E)

\* Query.searchEmployeeById
searchEmployeeById(E, up, context, eid) ==
    IF requireAuth(context).err # NoError
      THEN EmpOutcome(EmpResult(unauth, <<"requireAuth">>, <<>>, 0), E)
    ELSE IF validateObjectId(eid, "eid") # NoError
      THEN EmpOutcome(EmpResult(validateObjectId(eid, "eid"), <<"requireAuth">>, <<>>, 0), E)
    ELSE IF ~up
      THEN EmpOutcome(EmpResult(storeFailed, <<"requireAuth", "Employee.findById">>, <<>>, 0), E)
    ELSE IF employeeById(E, eid) = NoEmployee
      THEN EmpOutcome(EmpResult(notFound(<<"Employee with ID">>),
                                <<"requireAuth", "Employee.findById">>, <<>>, 0), E)
    ELSE EmpOutcome(EmpResult(NoError, <<"requireAuth", "Employee.findById">>,
                              <<employeeById(E, eid)>>, 1), E)

\* Query.searchEmployeeByDesignationOrDepartment
searchEmployeeByDesignationOrDepartment(E, up, context, designation, department) ==
    IF requireAuth(context).err # NoError
      THEN EmpOutcome(EmpResult(unauth, <<"requireAuth">>, <<>>, 0), E)
    ELSE IF ~truthyStr(designation) /\ ~truthyStr(department)
      THEN EmpOutcome(EmpResult(badInput(<<"You need to pass at least one of: designation, department.">>),
                                <<"requireAuth">>, <<>>, 0), E)
    ELSE IF ~up
      THEN EmpOutcome(EmpResult(storeFailed, <<"requireAuth", "Employee.find">>, <<>>, 0), E)
    ELSE LET found == {e \in E :
                         \/ /\ truthyStr(designation)
                            /\ regexMatchesIgnoreCase(e.designation, trim(designation.s))
                         \/ /\ truthyStr(department)
                            /\ regexMatchesIgnoreCase(e.department, trim(department.s))}
         IN EmpOutcome(EmpResult(NoError, <<"requireAuth", "Employee.find">>,
                                 newestFirst(found), Cardinality(found)), E)

\* Mutation.addEmployee; args holds the values of its non-null arguments and
\* employee_photo, <<>> when no photo was passed
addEmployee(E, id, up, context, args) ==
    IF requireAuth(context).err # NoError
      THEN EmpOutcome(EmpResult(unauth, <<"requireAuth">>, <<>>, 0), E)
    ELSE IF requireFieldFails(args.first_name)
      THEN EmpOutcome(EmpResult(requireFieldError("first_name"), <<"requireAuth">>, <<>>, 0), E)
    ELSE IF requireFieldFails(args.last_name)
      THEN EmpOutcome(EmpResult(requireFieldError("last_name"), <<"requireAuth">>, <<>>, 0), E)
    ELSE IF requireFieldFails(args.email)
      THEN EmpOutcome(EmpResult(requireFieldError("email"), <<"requireAuth">>, <<>>, 0), E)
    ELSE IF requireFieldFails(args.designation)
      THEN EmpOutcome(EmpResult(requireFieldError("designation"), <<"requireAuth">>, <<>>, 0), E)
    ELSE IF requireFieldFails(args.department)
      THEN EmpOutcome(EmpResult(requireFieldError("department"), <<"requireAuth">>, <<>>, 0), E)
    ELSE IF ~isEmail(args.email)
      THEN EmpOutcome(EmpResult(badInput(<<"doesn't look like a valid email address.">>),
                                <<"requireAuth">>, <<>>, 0), E)
    ELSE IF validateSalary(Num(args.salary)) # NoError
      THEN EmpOutcome(EmpResult(validateSalary(Num(args.salary)), <<"requireAuth">>, <<>>, 0), E)
    ELSE IF validateDate(Str(args.date_of_joining), "date_of_joining") # NoError
      THEN EmpOutcome(EmpResult(validateDate(Str(args.date_of_joining), "date_of_joining"),
                                <<"requireAuth">>, <<>>, 0), E)
    ELSE IF ~up
      THEN EmpOutcome(EmpResult(storeFailed, <<"requireAuth", "Employee.findOne">>, <<>>, 0), E)
    ELSE IF emailInUse(E, trim(toLowerCase(args.email)), 0)
      THEN EmpOutcome(EmpResult(conflict(<<"There's already an employee with the email">>),
                                <<"requireAuth", "Employee.findOne">>, <<>>, 0), E)
    ELSE LET r == employeeCreate(E, id,
                     [_id |-> 0,
                      first_name      |-> trim(args.first_name),
                      last_name       |-> trim(args.last_name),
                      email           |-> trim(args.email),
                      gender          |-> args.gender,
                      designation     |-> trim(args.designation),
                      salary          |-> args.salary,
                      date_of_joining |-> newDate(args.date_of_joining),
                      department      |-> trim(args.department),
                      employee_photo  |-> args.employee_photo])
             calls3 == <<"requireAuth", "Employee.findOne", "Employee.create">>
         IN EmpOutcome(EmpResult(r.err, calls3,
                                 IF r.err = NoError THEN <<r.emp>> ELSE <<>>,
                                 IF r.err = NoError THEN 1 ELSE 0),
                       r.employees)

\* Mutation.deleteEmployee without its requireAuth line
deleteEmployeeNoGate(E, up, context, eid) ==
    IF validateObjectId(eid, "eid") # NoError
      THEN EmpOutcome(EmpResult(validateObjectId(eid, "eid"), <<>>, <<>>, 0), E)
    ELSE IF ~up
      THEN EmpOutcome(EmpResult(storeFailed, <<"Employee.findById">>, <<>>, 0), E)
    ELSE IF employeeById(E, eid) = NoEmployee
      THEN EmpOutcome(EmpResult(notFound(<<"Employee with ID">>),
                                <<"Employee.findById">>, <<>>, 0), E)
    ELSE EmpOutcome(EmpResult(NoError,
                              <<"Employee.findById", "Employee.findByIdAndDelete">>,
                              <<employeeById(E, eid)>>, 1),
                    E \ {employeeById(E, eid)})

\* Mutation.deleteEmployee
deleteEmployee(E, up, context, eid) ==
    IF requireAuth(context).err # NoError
      THEN EmpOutcome(EmpResult(unauth, <<"requireAuth">>, <<>>, 0), E)
    ELSE IF validateObjectId(eid, "eid") # NoError
      THEN EmpOutcome(EmpResult(validateObjectId(eid, "eid"), <<"requireAuth">>, <<>>, 0), E)
    ELSE IF ~up
      THEN EmpOutcome(EmpResult(storeFailed, <<"requireAuth", "Employee.findById">>, <<>>, 0), E)
    ELSE IF employeeById(E, eid) = NoEmployee
      THEN EmpOutcome(EmpResult(notFound(<<"Employee with ID">>),
                                <<"requireAuth", "Employee.findById">>, <<>>, 0), E)
    ELSE EmpOutcome(EmpResult(NoError,
                              <<"requireAuth", "Employee.findById", "Employee.findByIdAndDelete">>,
                              <<employeeById(E, eid)>>, 1),
                    E \ {employeeById(E, eid)})

\* pickDefined: the names of the arguments that are neither undefined nor null
UpdateFields ==
    {"first_name", "last_name", "email", "gender", "designation", "salary",
     "date_of_joining", "department", "employee_photo"}

pickDefined(updates) == {f \in UpdateFields : updates[f].k = "value"}

\* { $set: clean } applied to a document, the setters of the schema included
applySet(doc, updates) ==
    LET clean == pickDefined(updates)
        str(f)  == IF f \in clean THEN updates[f].s ELSE doc[f]
    IN castEmployeeDoc(
         [_id             |-> doc._id,
          first_name      |-> str("first_name"),
          last_name       |-> str("last_name"),
          email           |-> str("email"),
          gender          |-> str("gender"),
          designation     |-> str("designation"),
          salary          |-> IF "salary" \in clean THEN updates.salary.n ELSE doc.salary,
          date_of_joining |-> IF "date_of_joining" \in clean
                                THEN newDate(updates.date_of_joining.s)
                                ELSE doc.date_of_joining,
          department      |-> str("department"),
          employee_photo  |-> str("employee_photo")])

\* Mutation.updateEmployee
updateEmployee(E, up, context, eid, updates) ==
    LET existing  == employeeById(E, eid)
        checksMail == truthyStr(updates.email) /\ isEmail(updates.email.s)
        reads     == IF checksMail
                       THEN <<"requireAuth", "Employee.findById", "Employee.findOne">>
                       ELSE <<"requireAuth", "Employee.findById">>
        updated   == applySet(existing, updates)
    IN
    IF requireAuth(context).err # NoError
      THEN EmpOutcome(EmpResult(unauth, <<"requireAuth">>, <<>>, 0), E)
    ELSE IF validateObjectId(eid, "eid") # NoError
      THEN EmpOutcome(EmpResult(validateObjectId(eid, "eid"), <<"requireAuth">>, <<>>, 0), E)
    ELSE IF ~up
      THEN EmpOutcome(EmpResult(storeFailed, <<"requireAuth", "Employee.findById">>, <<>>, 0), E)
    ELSE IF existing = NoEmployee
      THEN EmpOutcome(EmpResult(notFound(<<"Employee with ID">>),
                                <<"requireAuth", "Employee.findById">>, <<>>, 0), E)
    ELSE IF truthyStr(updates.email) /\ ~isEmail(updates.email.s)
      THEN EmpOutcome(EmpResult(badInput(<<"doesn't look like a valid email address.">>),
                                <<"requireAuth", "Employee.findById">>, <<>>, 0), E)
    ELSE IF checksMail /\ emailInUse(E, trim(toLowerCase(updates.email.s)), eid)
      THEN EmpOutcome(EmpResult(conflict(<<"The email is already in use.">>), reads, <<>>, 0), E)
    ELSE IF updates.salary.k # "undefined" /\ validateSalary(updates.salary) # NoError
      THEN EmpOutcome(EmpResult(validateSalary(updates.salary), reads, <<>>, 0), E)
    ELSE IF /\ updates.date_of_joining.k # "undefined"
            /\ validateDate(updates.date_of_joining, "date_of_joining") # NoError
      THEN EmpOutcome(EmpResult(validateDate(updates.date_of_joining, "date_of_joining"),
                                reads, <<>>, 0), E)
    ELSE IF pickDefined(updates) = {}
      THEN EmpOutcome(EmpResult(badInput(<<"Nothing to update">>), reads, <<>>, 0), E)
    ELSE IF ~validEmployeeDoc(updated)
      THEN EmpOutcome(EmpResult(internalError(<<"ValidationError">>),
                                Append(reads, "Employee.findByIdAndUpdate"), <<>>, 0), E)
    ELSE IF emailInUse(E, updated.email, eid)
      THEN EmpOutcome(EmpResult(internalError(<<"E11000 duplicate key">>),
                                Append(reads, "Employee.findByIdAndUpdate"), <<>>, 0), E)
    ELSE EmpOutcome(EmpResult(NoError, Append(reads, "Employee.findByIdAndUpdate"),
                              <<updated>>, 1),
                    (E \ {existing}) \cup {updated})

\* ------------------------------------------------------------ scripts/seed.js
S_admin        == <<"a", "d", "m", "i", "n">>
S_adminEmail   == <<"a", "d", "m", "i", "n", "@", "c", "o", "m", "p", "3", "1", "3", "3", ".", "c", "a">>
S_Admin1234    == <<"A", "d", "m", "i", "n", "1", "2", "3", "4">>
S_testuser     == <<"t", "e", "s", "t", "u", "s", "e", "r">>
S_testuserMail == <<"t", "e", "s", "t", "u", "s", "e", "r", "@", "c", "o", "m", "p", "3", "1", "3", "3", ".", "c", "a">>
S_Test1234     == <<"T", "e", "s", "t", "1", "2", "3", "4">>

SAMPLE_USERS ==
    << [username |-> S_admin,    email |-> S_adminEmail,   password |-> S_Admin1234],
       [username |-> S_testuser, email |-> S_testuserMail, password |-> S_Test1234] >>

\* ------------------------------------------------------------------- inputs
S_alice      == <<"a", "l", "i", "c", "e">>
S_Alice      == <<"A", "l", "i", "c", "e">>
S_aliceMail  == <<"a", "l", "i", "c", "e", "@", "x", ".", "c", "o", "m">>
S_AliceMail  == <<"A", "l", "i", "c", "e", "@", "X", ".", "c", "o", "m">>
S_bob        == <<"b", "o", "b">>
S_bobMail    == <<"b", "o", "b", "@", "x", ".", "c", "o", "m">>
S_Passw0rd1  == <<"P", "a", "s", "s", "w", "0", "r", "d", "1">>
S_wrong      == <<"w", "r", "o", "n", "g">>
S_blank      == <<" ", " ">>
S_empty      == <<>>
S_notAnEmail == <<"a", "l", "i", "c", "e", ".", "x", ".", "c", "o", "m">>
S_al         == <<"a", "l">>

Args3(a, b, c) == [username |-> a, email |-> b, password |-> c]
Args2(a, b)    == [usernameOrEmail |-> a, password |-> b]

SignupInputs ==
    { Args3(S_alice, S_aliceMail, S_Passw0rd1),
      Args3(S_bob,   S_AliceMail, S_Passw0rd1),
      Args3(S_al,    S_bobMail,   S_Passw0rd1),
      Args3(S_bob,   S_notAnEmail, S_Passw0rd1),
      Args3(S_bob,   S_bobMail,   S_wrong),
      Args3(S_empty, S_bobMail,   S_Passw0rd1) }

LoginInputs ==
    { Args2(S_alice,     S_Passw0rd1),
      Args2(S_alice,     S_wrong),
      Args2(S_Alice,     S_Passw0rd1),
      Args2(S_AliceMail, S_Passw0rd1),
      Args2(S_bob,       S_Passw0rd1),
      Args2(S_admin,     S_Admin1234),
      Args2(S_admin,     S_Passw0rd1),
      Args2(S_testuser,  S_Test1234),
      Args2(S_blank,     S_Passw0rd1),
      Args2(S_alice,     S_empty) }

Salts == {1, 2}

\* tokens a client can present: the issued ones, issued ones with a claim or
\* the signature altered, and tokens signed with a key of the client's own
UserIds == 1..MaxUserId

Tampered(t) ==
    {[t EXCEPT !.userId = toHexString(i)] : i \in UserIds \ {castObjectId(t.userId)}}
    \cup {[t EXCEPT !.exp = t.exp + 1]}
    \cup {[t EXCEPT !.sig = HS256(ForgedKey, t.userId, t.iat, t.exp)]}

Forged == {jwtSign(i, ForgedKey, JWT_EXPIRES_IN, now) : i \in UserIds}

PresentedTokens == issued \cup UNION {Tampered(t) : t \in issued} \cup Forged

\* Authorization header values
HeadersWith(t) ==
    { <<Word("Bearer"), Space, TokenSym(t)>>,
      <<Word("Bearer"), Space, Space, TokenSym(t), Space>>,
      <<Word("bearer"), Space, TokenSym(t)>>,
      <<Word("Basic"), Space, TokenSym(t)>>,
      <<Word("Bearer"), TokenSym(t)>>,
      <<Word("Bearer"), Space, TokenSym(t), Space, Word("x")>> }

PlainHeaders ==
    { <<>>, <<Word("Bearer")>>, <<Word("Bearer"), Space>>,
      <<Word("Bearer"), Space, Space>>, <<Word("Bearer"), Space, Word("garbage")>> }

\* the shapes of the header, around the issued tokens and a token with a later
\* expiry written into it
Headers ==
    PlainHeaders
    \cup UNION {HeadersWith(t) : t \in issued}
    \cup {<<Word("Bearer"), Space, TokenSym([t EXCEPT !.exp = t.exp + 1])>> : t \in issued}

\* well-shaped headers around every presented token
TokHeaders ==
    {<<>>} \cup {<<Word("Bearer"), Space, TokenSym(t)>> : t \in PresentedTokens}

\* ------------------------------------------------------------ state machine
Request(op, header, ctx, arg1, arg2, res) ==
    [op |-> op, header |-> header, ctx |-> ctx, arg1 |-> arg1, arg2 |-> arg2,
     res |-> res]

NoResult == AuthResult(NoError, <<>>, GarbageToken, NoUser)

\* no request has completed since the state last changed under it
Idle == Request("none", <<>>, Context(NoUser, "", <<>>), <<>>, <<>>, NoResult)

\* ------------------------------------------------- config/db.js, startServer
\* the state of startServer: pc is the statement it stands at, retriesLeft the
\* argument of the running connectDB call, attempts the calls of
\* mongoose.connect made so far, connected whether one of them resolved
Boot(pc, retriesLeft, attempts, connected, exitCode) ==
    [pc |-> pc, retriesLeft |-> retriesLeft, attempts |-> attempts,
     connected |-> connected, exitCode |-> exitCode]

\* a catch block that retries while retriesLeft is not negative
connectDBCatchOneMore(b) ==
    IF b.retriesLeft >= 0
      THEN [b EXCEPT !.pc = "setTimeout", !.attempts = @ + 1]
      ELSE [b EXCEPT !.pc = "exited", !.attempts = @ + 1, !.exitCode = 1]

\* connectDB's catch block: wait and call connectDB(retriesLeft - 1) while
\* retries are left, else process.exit(1)
connectDBCatch(b) ==
    IF b.retriesLeft > 0
      THEN [b EXCEPT !.pc = "setTimeout", !.attempts = @ + 1]
      ELSE [b EXCEPT !.pc = "exited", !.attempts = @ + 1, !.exitCode = 1]

\* one call of connectDB(retriesLeft) up to its await of mongoose.connect:
\* ok is whether the connection was made
connectDB(b, ok) ==
    IF ok THEN [b EXCEPT !.pc = "connected", !.attempts = @ + 1, !.connected = TRUE]
    ELSE connectDBCatch(b)

\* the server after startServer has run: connected at the first attempt and
\* listening
Listening == Boot("listening", MAX_RETRIES, 1, TRUE, 0)

Init ==
    /\ boot = Listening
    /\ users = {}
    /\ nextUserId = 1
    /\ employees = {}
    /\ nextEmpId = 1
    /\ secret = "k1"
    /\ now = 0
    /\ dbUp = TRUE
    /\ issued = {}
    /\ pending = {}
    /\ seedPc = "idle"
    /\ last = Idle
    /\ loginErrs = {}

\* expressMiddleware: the context function runs before the operation; when it
\* throws, the request is answered with its error and no resolver runs
answered(ctx, res) ==
    IF ctx.err # NoError THEN AuthResult(ctx.err, <<>>, GarbageToken, NoUser) ELSE res

\* the cause a failed login actually has, from the store
loginCause(U, usernameOrEmail, password) ==
    LET user == findByCredential(U, usernameOrEmail) IN
    IF user = NoUser THEN "no_record"
    ELSE IF ~bcryptCompare(password, user.password) THEN "wrong_password"
    ELSE IF ~user.is_active THEN "inactive"
    ELSE "none"

\* a login request: buildContext, then Query.login
LoginWith(headers, inputs) ==
    \E h \in headers, args \in inputs :
      LET id  == args.usernameOrEmail
          pw  == args.password
          ctx == buildContext(h, users, secret, now, dbUp)
          res == answered(ctx, login(users, secret, now, dbUp, id, pw))
          cause == loginCause(users, id, pw)
      IN /\ res.err = NoError =>
              (res.token \in issued \/ Cardinality(issued) < MaxIssued)
         /\ issued' = IF res.err = NoError THEN issued \cup {res.token} ELSE issued
         /\ last' = Request("login", h, ctx, id, pw, res)
         /\ loginErrs' =
              IF res.trace # <<>> /\ cause \in {"no_record", "wrong_password"}
                THEN loginErrs \cup {[cause |-> cause, err |-> res.err]}
                ELSE loginErrs
         /\ UNCHANGED <<boot, users, nextUserId, employees, nextEmpId, secret, now, dbUp,
                        pending, seedPc>>

Login == LoginWith({<<>>}, LoginInputs)

\* a signup request whose User.create follows its User.findOne with no other
\* request in between
SignupWith(headers, inputs, salts) ==
    \E h \in headers, args \in inputs, salt \in salts :
      LET ctx == buildContext(h, users, secret, now, dbUp)
          err == IF ctx.err # NoError THEN ctx.err
                 ELSE signupCheck(users, dbUp, args.username, args.email, args.password)
          r   == signupCreate(users, nextUserId, dbUp, salt,
                              args.username, args.email, args.password)
      IN /\ nextUserId <= MaxUserId
         /\ users' = IF err = NoError THEN r.users ELSE users
         /\ nextUserId' = IF err = NoError THEN nextUserId + 1 ELSE nextUserId
         /\ last' = Request("signup", h, ctx, args.username, args.email,
                            IF err = NoError
                              THEN AuthResult(r.err, <<"User.findOne", "User.create">>,
                                              GarbageToken, r.user)
                            ELSE IF ctx.err # NoError
                              THEN answered(ctx, NoResult)
                              ELSE AuthResult(err, signupCheckTrace(err), GarbageToken, NoUser))
         /\ UNCHANGED <<boot, employees, nextEmpId, secret, now, dbUp, issued, pending,
                        seedPc, loginErrs>>

Signup == SignupWith({<<>>}, SignupInputs, Salts)

\* time passes
Tick ==
    /\ now < MaxTime
    /\ now' = now + 1
    /\ last' = Idle
    /\ UNCHANGED <<boot, users, nextUserId, employees, nextEmpId, secret, dbUp, issued,
                   pending, seedPc, loginErrs>>

\* the server is restarted with another JWT_SECRET
RotateSecret ==
    /\ secret = "k1"
    /\ secret' = "k2"
    /\ last' = Idle
    /\ UNCHANGED <<boot, users, nextUserId, employees, nextEmpId, now, dbUp, issued,
                   pending, seedPc, loginErrs>>

\* an administrator clears is_active of a record directly in the database
Deactivate ==
    \E u \in users :
      /\ u.is_active
      /\ users' = (users \ {u}) \cup {[u EXCEPT !.is_active = FALSE]}
      /\ last' = Idle
    /\ UNCHANGED <<boot, nextUserId, employees, nextEmpId, secret, now, dbUp, issued,
                   pending, seedPc, loginErrs>>

\* npm run seed: mongoose.connect
SeedStart ==
    /\ seedPc \in {"idle", "done", "failed"}
    /\ nextUserId + Len(SAMPLE_USERS) - 1 <= MaxUserId
    /\ seedPc' = IF dbUp THEN "clearUsers" ELSE "failed"
    /\ last' = Idle
    /\ UNCHANGED <<boot, users, nextUserId, employees, nextEmpId, secret, now, dbUp,
                   issued, pending, loginErrs>>

\* User.deleteMany({})
SeedClearUsers ==
    /\ seedPc = "clearUsers"
    /\ users' = IF dbUp THEN {} ELSE users
    /\ seedPc' = IF dbUp THEN "clearEmployees" ELSE "failed"
    /\ last' = Idle
    /\ UNCHANGED <<boot, nextUserId, employees, nextEmpId, secret, now, dbUp, issued,
                   pending, loginErrs>>

\* Employee.deleteMany({})
SeedClearEmployees ==
    /\ seedPc = "clearEmployees"
    /\ employees' = IF dbUp THEN {} ELSE employees
    /\ seedPc' = IF dbUp THEN "insertUsers" ELSE "failed"
    /\ last' = Idle
    /\ UNCHANGED <<boot, users, nextUserId, nextEmpId, secret, now, dbUp, issued,
                   pending, loginErrs>>

\* User.insertMany(SAMPLE_USERS)
SeedInsertUsers ==
    /\ seedPc = "insertUsers"
    /\ LET r == IF dbUp THEN userInsertMany(users, nextUserId, SAMPLE_USERS)
                ELSE [users |-> users, err |-> internalError(<<"store call failed">>)]
       IN /\ users' = r.users
          /\ seedPc' = IF r.err = NoError THEN "insertEmployees" ELSE "failed"
    /\ nextUserId' = nextUserId + Len(SAMPLE_USERS)
    /\ last' = Idle
    /\ UNCHANGED <<boot, employees, nextEmpId, secret, now, dbUp, issued, pending, loginErrs>>

\* empDocs: the samples with their date strings turned into Date objects
empDocs ==
    [i \in 1..Len(SAMPLE_EMPLOYEES) |->
        [_id             |-> 0,
         first_name      |-> SAMPLE_EMPLOYEES[i].first_name,
         last_name       |-> SAMPLE_EMPLOYEES[i].last_name,
         email           |-> SAMPLE_EMPLOYEES[i].email,
         gender          |-> SAMPLE_EMPLOYEES[i].gender,
         designation     |-> SAMPLE_EMPLOYEES[i].designation,
         salary          |-> SAMPLE_EMPLOYEES[i].salary,
         date_of_joining |-> newDate(SAMPLE_EMPLOYEES[i].date_of_joining),
         department      |-> SAMPLE_EMPLOYEES[i].department,
         employee_photo  |-> SAMPLE_EMPLOYEES[i].employee_photo]]

\* Employee.insertMany(empDocs)
SeedInsertEmployees ==
    /\ seedPc = "insertEmployees"
    /\ LET r == IF dbUp THEN employeeInsertMany(employees, nextEmpId, empDocs)
                ELSE [employees |-> employees, err |-> storeFailed]
       IN /\ employees' = r.employees
          /\ seedPc' = IF r.err = NoError THEN "done" ELSE "failed"
    /\ nextEmpId' = nextEmpId + Len(SAMPLE_EMPLOYEES)
    /\ last' = Idle
    /\ UNCHANGED <<boot, users, nextUserId, secret, now, dbUp, issued, pending, loginErrs>>

\* ------------------------------------------------ protected operations
S_Al        == <<"A", "l">>
S_Lee       == <<"L", "e", "e">>
S_alMail    == <<"a", "l", "@", "x", ".", "c", "o", "m">>
S_AlMailUp  == <<"A", "l", "@", "X", ".", "c", "o", "m">>
S_edMail    == <<"e", "d", "@", "x", ".", "c", "o", "m">>
S_Engineer  == <<"E", "n", "g", "i", "n", "e", "e", "r">>
S_engineer  == <<"e", "n", "g", "i", "n", "e", "e", "r">>
S_Design    == <<"D", "e", "s", "i", "g", "n">>
S_Male      == <<"M", "a", "l", "e">>
S_Other     == <<"O", "t", "h", "e", "r">>
S_date      == <<"2", "0", "2", "4", "-", "0", "1", "-", "1", "5">>
S_badDate   == <<"2", "0", "2", "4", "-", "1", "3", "-", "0", "1">>

AddArgs(first, email, salary, date) ==
    [first_name |-> first, last_name |-> S_Lee, email |-> email, gender |-> S_Male,
     designation |-> S_Engineer, salary |-> salary, date_of_joining |-> date,
     department |-> S_Design, employee_photo |-> <<>>]

AddInputs ==
    { AddArgs(S_Al, S_AlMailUp, 5000, S_date),
      AddArgs(S_Al, S_edMail, 1000, S_date),
      AddArgs(S_Al, S_edMail, 999, S_date),
      AddArgs(S_Al, S_edMail, 5000, S_badDate),
      AddArgs(S_blank, S_edMail, 5000, S_date) }

NoUpdates == [f \in UpdateFields |-> Undefined]

S_A == <<"A">>

UpdateInputs ==
    { NoUpdates,
      [NoUpdates EXCEPT !.salary = Num(7000), !.designation = Str(S_engineer)],
      [NoUpdates EXCEPT !.salary = Num(500)],
      [NoUpdates EXCEPT !.salary = Null],
      [NoUpdates EXCEPT !.salary = Null, !.designation = Str(S_engineer)],
      [NoUpdates EXCEPT !.email = Str(S_edMail), !.gender = Str(S_Other)],
      [NoUpdates EXCEPT !.email = Str(S_notAnEmail)],
      [NoUpdates EXCEPT !.date_of_joining = Str(S_badDate)],
      [NoUpdates EXCEPT !.first_name = Null, !.employee_photo = Null],
      [NoUpdates EXCEPT !.first_name = Null, !.department = Str(S_Engineer)],
      [NoUpdates EXCEPT !.first_name = Str(S_A)] }

Eids == 0..MaxEmpId

PageInputs  == {Undefined, Null, Num(2)}
LimitInputs == {Undefined, Num(1)}

SearchInputs ==
    { <<Undefined, Undefined>>, <<Str(S_engineer), Undefined>>, <<Null, Str(S_Design)>> }

EmpRequest(op, h, ctx, out) ==
    /\ last' = Request(op, h, ctx, <<>>, <<>>, out.res)
    /\ employees' = out.employees
    /\ UNCHANGED <<boot, users, nextUserId, secret, now, dbUp, issued, pending, seedPc,
                   loginErrs>>

GetAllEmployeesWith(headers, pages, limits) ==
    \E h \in headers, page \in pages, limit \in limits :
      LET ctx == buildContext(h, users, secret, now, dbUp)
      IN /\ EmpRequest("getAllEmployees", h, ctx,
                       getAllEmployees(employees, dbUp, ctx, page, limit))
         /\ UNCHANGED nextEmpId

SearchEmployeeByIdWith(headers, eids) ==
    \E h \in headers, eid \in eids :
      LET ctx == buildContext(h, users, secret, now, dbUp)
      IN /\ EmpRequest("searchEmployeeById", h, ctx,
                       searchEmployeeById(employees, dbUp, ctx, eid))
         /\ UNCHANGED nextEmpId

SearchEmployeeByDesignationOrDepartmentWith(headers, queries) ==
    \E h \in headers, q \in queries :
      LET ctx == buildContext(h, users, secret, now, dbUp)
      IN /\ EmpRequest("searchEmployeeByDesignationOrDepartment", h, ctx,
                       searchEmployeeByDesignationOrDepartment(employees, dbUp, ctx,
                                                               q[1], q[2]))
         /\ UNCHANGED nextEmpId

AddEmployeeWith(headers, inputs) ==
    \E h \in headers, args \in inputs :
      LET ctx == buildContext(h, users, secret, now, dbUp)
          out == addEmployee(employees, nextEmpId, dbUp, ctx, args)
      IN /\ nextEmpId <= MaxEmpId
         /\ EmpRequest("addEmployee", h, ctx, out)
         /\ nextEmpId' = IF calls(out.res.trace, "Employee.create")
                           THEN nextEmpId + 1 ELSE nextEmpId

UpdateEmployeeWith(headers, eids, inputs) ==
    \E h \in headers, eid \in eids, updates \in inputs :
      LET ctx == buildContext(h, users, secret, now, dbUp)
      IN /\ EmpRequest("updateEmployee", h, ctx,
                       updateEmployee(employees, dbUp, ctx, eid, updates))
         /\ UNCHANGED nextEmpId

DeleteEmployeeWith(headers, eids) ==
    \E h \in headers, eid \in eids :
      LET ctx == buildContext(h, users, secret, now, dbUp)
      IN /\ EmpRequest("deleteEmployee", h, ctx,
                       deleteEmployee(employees, dbUp, ctx, eid))
         /\ UNCHANGED nextEmpId

MeWith(headers) ==
    \E h \in headers :
      LET ctx == buildContext(h, users, secret, now, dbUp)
      IN /\ last' = Request("me", h, ctx, <<>>, <<>>, me(ctx))
         /\ UNCHANGED <<boot, users, nextUserId, employees, nextEmpId, secret, now, dbUp,
                        issued, pending, seedPc, loginErrs>>

\* ------------------------------------------------------------ specifications
\* the credential side: signup, login, the seed script, deactivation
Next ==
    \/ Login
    \/ Signup
    \/ Deactivate
    \/ SeedStart
    \/ SeedClearUsers
    \/ SeedClearEmployees
    \/ SeedInsertUsers
    \/ SeedInsertEmployees

Spec == Init /\ [][Next]_vars

\* the public operations, under every kind of Authorization header and with
\* arguments that are blank or not provided
PubHeaders ==
    { <<>>, <<Word("Bearer"), Space>>, <<Word("Bearer"), Space, Word("garbage")>>,
      <<Word("Basic"), Space, Word("garbage")>> }
    \cup UNION { { <<Word("Bearer"), Space, TokenSym(t)>>,
                   <<Word("Bearer"), Space, TokenSym([t EXCEPT !.exp = t.exp + 1])>> }
                 : t \in issued }

PubSignupInputs ==
    { Args3(S_alice, S_aliceMail, S_Passw0rd1), Args3(S_bob, S_AliceMail, S_Passw0rd1) }

PubLoginInputs ==
    { Args2(S_alice,     S_Passw0rd1),
      Args2(S_alice,     S_wrong),
      Args2(S_AliceMail, S_Passw0rd1),
      Args2(S_blank,     S_Passw0rd1),
      Args2(S_alice,     S_empty) }

NotProvidedInputs ==
    { Args2(Missing, S_Passw0rd1), Args2(S_alice, Missing), Args2(Missing, Missing) }

\* a login request with an argument that is null or left out
LoginNotProvided(headers) ==
    \E h \in headers, args \in NotProvidedInputs, viaVariables \in BOOLEAN :
      LET ctx == buildContext(h, users, secret, now, dbUp)
      IN /\ last' = Request("login", h, ctx, args.usernameOrEmail, args.password,
                            answered(ctx, AuthResult(nonNullRejected(viaVariables), <<>>,
                                                     GarbageToken, NoUser)))
         /\ UNCHANGED <<boot, users, nextUserId, employees, nextEmpId, secret, now, dbUp,
                        issued, pending, seedPc, loginErrs>>

PubSignup == SignupWith(PubHeaders, PubSignupInputs, {1})
PubLogin  == LoginWith(PubHeaders, PubLoginInputs)
PubLoginNotProvided == LoginNotProvided({<<>>, <<Word("Bearer"), Space, Word("garbage")>>})

NextPublic ==
    \/ PubSignup
    \/ PubLogin
    \/ PubLoginNotProvided
    \/ Tick

SpecPublic == Init /\ [][NextPublic]_vars

\* the credential lookup under identifiers in other letter cases and with
\* white space around them
S_alicePadded == <<" ">> \o S_alice \o <<" ">>
S_mailPadded  == <<" ">> \o S_AliceMail

LookupSignupInputs ==
    { Args3(S_alice, S_AliceMail, S_Passw0rd1), Args3(S_bob, S_bobMail, S_Passw0rd1) }

LookupLoginInputs ==
    { Args2(id, pw) : id \in {S_alice, S_Alice, S_aliceMail, S_AliceMail,
                              S_alicePadded, S_mailPadded, S_bob},
                      pw \in {S_Passw0rd1, S_wrong} }

LookupHeaders == { <<>> } \cup { <<Word("Bearer"), Space, TokenSym(t)>> : t \in issued }

LookupSignup == SignupWith({<<>>}, LookupSignupInputs, {1})
LookupLogin  == LoginWith({<<>>}, LookupLoginInputs)
MeLookup     == MeWith(LookupHeaders)

NextLookup ==
    \/ LookupSignup
    \/ LookupLogin
    \/ MeLookup
    \/ Deactivate

SpecLookup == Init /\ [][NextLookup]_vars


\* the store going away and coming back while requests are served
FaultLoginInputs ==
    { Args2(S_alice, S_Passw0rd1), Args2(S_alice, S_wrong), Args2(S_bob, S_Passw0rd1) }

FaultHeaders ==
    { <<>>, <<Word("Bearer"), Space, Word("garbage")>> }
    \cup { <<Word("Bearer"), Space, TokenSym(t)>> : t \in issued }

\* the connection to MongoDB is lost: every store call of a request fails
StoreDown ==
    /\ dbUp
    /\ dbUp' = FALSE
    /\ last' = Idle
    /\ UNCHANGED <<boot, users, nextUserId, employees, nextEmpId, secret, now, issued,
                   pending, seedPc, loginErrs>>

\* the connection is back
StoreUp ==
    /\ ~dbUp
    /\ dbUp' = TRUE
    /\ last' = Idle
    /\ UNCHANGED <<boot, users, nextUserId, employees, nextEmpId, secret, now, issued,
                   pending, seedPc, loginErrs>>

FaultSignup == SignupWith({<<>>}, PubSignupInputs, {1})
FaultLogin  == LoginWith({<<>>}, FaultLoginInputs)
MeFault     == MeWith(FaultHeaders)

NextFault ==
    \/ FaultSignup
    \/ FaultLogin
    \/ MeFault
    \/ StoreDown
    \/ StoreUp
    \/ Tick
    \/ Deactivate

SpecFault == Init /\ [][NextFault]_vars

\* startup: startServer awaits connectDB before it creates the server and
\* listens; MongoDB may be unreachable, and come and go, meanwhile
InitBoot ==
    /\ boot = Boot("connectDB", MAX_RETRIES, 0, FALSE, 0)
    /\ users = {}
    /\ nextUserId = 1
    /\ employees = {}
    /\ nextEmpId = 1
    /\ secret = "k1"
    /\ now = 0
    /\ dbUp \in BOOLEAN
    /\ issued = {}
    /\ pending = {}
    /\ seedPc = "idle"
    /\ last = Idle
    /\ loginErrs = {}

\* await mongoose.connect(...): resolves when MongoDB is reachable, else the
\* catch block runs
ConnectAttempt ==
    /\ boot.pc = "connectDB"
    /\ boot' = connectDB(boot, dbUp)
    /\ UNCHANGED <<users, nextUserId, employees, nextEmpId, secret, now, dbUp, issued,
                   pending, seedPc, last, loginErrs>>

\* the RETRY_DELAY_MS timer fires: return connectDB(retriesLeft - 1)
RetryTimer ==
    /\ boot.pc = "setTimeout"
    /\ boot' = [boot EXCEPT !.pc = "connectDB", !.retriesLeft = @ - 1]
    /\ UNCHANGED <<users, nextUserId, employees, nextEmpId, secret, now, dbUp, issued,
                   pending, seedPc, last, loginErrs>>

\* steps 2 to 6 of startServer: express, Apollo, routes, httpServer.listen
Listen ==
    /\ boot.pc = "connected"
    /\ boot' = [boot EXCEPT !.pc = "listening"]
    /\ UNCHANGED <<users, nextUserId, employees, nextEmpId, secret, now, dbUp, issued,
                   pending, seedPc, last, loginErrs>>

\* requests reach the resolvers only through the listening server
BootSignup == boot.pc = "listening" /\ SignupWith({<<>>}, PubSignupInputs, {1})
BootLogin  == boot.pc = "listening" /\ LoginWith({<<>>}, FaultLoginInputs)

NextBoot ==
    \/ ConnectAttempt
    \/ RetryTimer
    \/ Listen
    \/ BootSignup
    \/ BootLogin
    \/ StoreDown
    \/ StoreUp

\* mongoose.connect settles within serverSelectionTimeoutMS, the timer fires,
\* and startServer runs on once connectDB has returned
SpecBoot ==
    /\ InitBoot
    /\ [][NextBoot]_vars
    /\ WF_vars(ConnectAttempt)
    /\ WF_vars(RetryTimer)
    /\ WF_vars(Listen)

\* updates of employee records, the arguments of each request kept with it
UpdSignupInputs == { Args3(S_alice, S_aliceMail, S_Passw0rd1) }
UpdLoginInputs  == { Args2(S_alice, S_Passw0rd1) }
UpdHeaders      == { <<>> } \cup { <<Word("Bearer"), Space, TokenSym(t)>> : t \in issued }
UpdAddInputs ==
    { AddArgs(S_Al, S_AlMailUp, 5000, S_date), AddArgs(S_Al, S_edMail, 1000, S_date) }

\* an updateEmployee request; last keeps eid and the optional arguments
UpdateEmployeeRequest(headers, eids, inputs) ==
    \E h \in headers, eid \in eids, updates \in inputs :
      LET ctx == buildContext(h, users, secret, now, dbUp)
          out == updateEmployee(employees, dbUp, ctx, eid, updates)
      IN /\ last' = Request("updateEmployee", h, ctx, eid, updates, out.res)
         /\ employees' = out.employees
         /\ UNCHANGED <<boot, users, nextUserId, nextEmpId, secret, now, dbUp, issued,
                        pending, seedPc, loginErrs>>

UpdSignup == SignupWith({<<>>}, UpdSignupInputs, {1})
UpdLogin  == LoginWith({<<>>}, UpdLoginInputs)
UpdAdd    == AddEmployeeWith(UpdHeaders, UpdAddInputs)
UpdUpdate == UpdateEmployeeRequest(UpdHeaders, Eids, UpdateInputs)

NextUpdate ==
    \/ UpdSignup
    \/ UpdLogin
    \/ UpdAdd
    \/ UpdUpdate

SpecUpdate == Init /\ [][NextUpdate]_vars


\* salaries: addEmployee and updateEmployee with salaries on both sides of the
\* minimum, the arguments of each request kept with it
SalaryAddInputs ==
    { AddArgs(S_Al, S_AlMailUp, 5000, S_date),
      AddArgs(S_Al, S_edMail, 1000, S_date),
      AddArgs(S_Al, S_edMail, 999, S_date) }

SalaryUpdateInputs ==
    { [NoUpdates EXCEPT !.salary = Num(7000), !.designation = Str(S_engineer)],
      [NoUpdates EXCEPT !.salary = Num(1000)],
      [NoUpdates EXCEPT !.salary = Num(999)],
      [NoUpdates EXCEPT !.salary = Num(0), !.designation = Str(S_engineer)],
      [NoUpdates EXCEPT !.salary = Null, !.designation = Str(S_engineer)],
      [NoUpdates EXCEPT !.salary = Num(500), !.email = Str(S_edMail)] }

\* an addEmployee request; last keeps its arguments
AddEmployeeRequest(headers, inputs) ==
    \E h \in headers, args \in inputs :
      LET ctx == buildContext(h, users, secret, now, dbUp)
          out == addEmployee(employees, nextEmpId, dbUp, ctx, args)
      IN /\ nextEmpId <= MaxEmpId
         /\ last' = Request("addEmployee", h, ctx, 0, args, out.res)
         /\ employees' = out.employees
         /\ nextEmpId' = IF calls(out.res.trace, "Employee.create")
                           THEN nextEmpId + 1 ELSE nextEmpId
         /\ UNCHANGED <<boot, users, nextUserId, secret, now, dbUp, issued, pending,
                        seedPc, loginErrs>>

SalarySignup == SignupWith({<<>>}, UpdSignupInputs, {1})
SalaryLogin  == LoginWith({<<>>}, UpdLoginInputs)
SalaryAdd    == AddEmployeeRequest(UpdHeaders, SalaryAddInputs)
SalaryUpdate == UpdateEmployeeRequest(UpdHeaders, Eids, SalaryUpdateInputs)

NextSalary ==
    \/ SalarySignup
    \/ SalaryLogin
    \/ SalaryAdd
    \/ SalaryUpdate

SpecSalary == Init /\ [][NextSalary]_vars


\* concurrent signups: each request is a User.findOne and, in a later step, a
\* User.create; any other request may run in between
RaceSignupInputs ==
    { Args3(S_alice, S_aliceMail, S_Passw0rd1),
      Args3(S_alice, S_bobMail,   S_Passw0rd1),
      Args3(S_bob,   S_AliceMail, S_Passw0rd1),
      Args3(S_bob,   S_bobMail,   S_Passw0rd1) }

\* the request ids not in flight
FreeRids == (1..MaxPending) \ {p.rid : p \in pending}

\* Mutation.signup up to its await of User.findOne: the request is answered
\* when a validator or the pre-check throws, and is in flight otherwise
SignupCheckWith(inputs) ==
    \E args \in inputs, rid \in FreeRids :
      LET err == signupCheck(users, dbUp, args.username, args.email, args.password)
      IN /\ pending' = IF err = NoError
                         THEN pending \cup {[rid |-> rid, args |-> args]}
                         ELSE pending
         /\ last' = IF err = NoError THEN Idle
                    ELSE Request("signup", <<>>, Context(NoUser, "", <<>>),
                                 args.username, args.email,
                                 AuthResult(err, signupCheckTrace(err), GarbageToken, NoUser))
         /\ UNCHANGED <<boot, users, nextUserId, employees, nextEmpId, secret, now, dbUp,
                        issued, seedPc, loginErrs>>

\* Mutation.signup from its await of User.create to its answer
SignupCreate ==
    \E p \in pending :
      LET r == signupCreate(users, nextUserId, dbUp, 1,
                            p.args.username, p.args.email, p.args.password)
      IN /\ nextUserId <= MaxUserId
         /\ users' = r.users
         /\ nextUserId' = IF r.err = NoError THEN nextUserId + 1 ELSE nextUserId
         /\ pending' = pending \ {p}
         /\ last' = Request("signup", <<>>, Context(NoUser, "", <<>>),
                            p.args.username, p.args.email,
                            AuthResult(r.err, <<"User.findOne", "User.create">>,
                                       GarbageToken, r.user))
         /\ UNCHANGED <<boot, employees, nextEmpId, secret, now, dbUp, issued, seedPc,
                        loginErrs>>

SignupCheck == SignupCheckWith(RaceSignupInputs)

NextRace ==
    \/ SignupCheck
    \/ SignupCreate

SpecRace == Init /\ [][NextRace]_vars

\* every operation of the API side by side: signups that overlap, logins that
\* succeed and fail, me and the employee resolvers, with and without a token
ApiHeaders == { <<>> } \cup { <<Word("Bearer"), Space, TokenSym(t)>> : t \in issued }

ApiSignupInputs ==
    { Args3(S_alice, S_aliceMail, S_Passw0rd1), Args3(S_alice, S_bobMail, S_Passw0rd1) }

ApiSignupCheck == SignupCheckWith(ApiSignupInputs)
ApiLoginInputs == { Args2(S_alice, S_Passw0rd1), Args2(S_alice, S_wrong) }

ApiLogin   == LoginWith(ApiHeaders, ApiLoginInputs)
ApiMe      == MeWith(ApiHeaders)
ApiGetAll  == GetAllEmployeesWith(ApiHeaders, {Undefined}, {Undefined})
ApiSearchById == SearchEmployeeByIdWith(ApiHeaders, {1})
ApiSearchBy ==
    SearchEmployeeByDesignationOrDepartmentWith(ApiHeaders, {<<Str(S_engineer), Undefined>>})
ApiAdd     == AddEmployeeWith(ApiHeaders, {AddArgs(S_Al, S_edMail, 1000, S_date)})
ApiUpdate  == UpdateEmployeeWith(ApiHeaders, {1}, {[NoUpdates EXCEPT !.salary = Num(7000)]})
ApiDelete  == DeleteEmployeeWith(ApiHeaders, {1})

NextApi ==
    \/ ApiSignupCheck
    \/ SignupCreate
    \/ ApiLogin
    \/ ApiMe
    \/ ApiGetAll
    \/ ApiSearchById
    \/ ApiSearchBy
    \/ ApiAdd
    \/ ApiUpdate
    \/ ApiDelete
    \/ Deactivate

SpecApi == Init /\ [][NextApi]_vars

\* context resolution: the shapes of the header and the state of the account,
\* over time, deactivation and the deletion of the records by the seed script
CtxSignupInputs ==
    { Args3(S_alice, S_aliceMail, S_Passw0rd1), Args3(S_bob, S_bobMail, S_Passw0rd1) }
CtxLoginInputs == { Args2(S_alice, S_Passw0rd1) }

CtxSignup == SignupWith({<<>>}, CtxSignupInputs, {1})
CtxLogin  == LoginWith({<<>>}, CtxLoginInputs)
Me        == MeWith(Headers)

NextCtx ==
    \/ CtxSignup
    \/ CtxLogin
    \/ Me
    \/ Tick
    \/ Deactivate
    \/ SeedStart
    \/ SeedClearUsers

SpecCtx == Init /\ [][NextCtx]_vars

\* token verification: issued, altered and forged tokens over time, restarts
\* with another secret, and deactivation
TokLoginInputs ==
    { Args2(S_alice, S_Passw0rd1), Args2(S_bob, S_Passw0rd1) }

TokLogin == LoginWith({<<>>}, TokLoginInputs)
MeTok    == MeWith(TokHeaders)

NextTok ==
    \/ CtxSignup
    \/ TokLogin
    \/ MeTok
    \/ Tick
    \/ RotateSecret
    \/ Deactivate

SpecTok == Init /\ [][NextTok]_vars

\* the protected operations behind the gate
GateSignupInputs == { Args3(S_alice, S_aliceMail, S_Passw0rd1) }
GateLoginInputs  == { Args2(S_alice, S_Passw0rd1) }
GateHeaders ==
    {<<>>, <<Word("Bearer"), Space, TokenSym(jwtSign(1, ForgedKey, JWT_EXPIRES_IN, now))>>}
    \cup {<<Word("Bearer"), Space, TokenSym(t)>> : t \in issued}

GateUpdateInputs ==
    { NoUpdates,
      [NoUpdates EXCEPT !.salary = Num(7000), !.designation = Str(S_engineer)],
      [NoUpdates EXCEPT !.salary = Null] }

GateSignup == SignupWith({<<>>}, GateSignupInputs, {1})
GateLogin  == LoginWith({<<>>}, GateLoginInputs)
MeGate     == MeWith(GateHeaders)
GetAllEmployees    == GetAllEmployeesWith(GateHeaders, PageInputs, LimitInputs)
SearchEmployeeById == SearchEmployeeByIdWith(GateHeaders, Eids)
SearchEmployeeByDesignationOrDepartment ==
    SearchEmployeeByDesignationOrDepartmentWith(GateHeaders, SearchInputs)
AddEmployee    == AddEmployeeWith(GateHeaders, AddInputs)
UpdateEmployee == UpdateEmployeeWith(GateHeaders, Eids, GateUpdateInputs)
DeleteEmployee == DeleteEmployeeWith(GateHeaders, Eids)

NextGate ==
    \/ GateSignup
    \/ GateLogin
    \/ MeGate
    \/ GetAllEmployees
    \/ SearchEmployeeById
    \/ SearchEmployeeByDesignationOrDepartment
    \/ AddEmployee
    \/ UpdateEmployee
    \/ DeleteEmployee
    \/ RotateSecret
    \/ Deactivate

SpecGate == Init /\ [][NextGate]_vars

\* ------------------------------------------------------------------- claims

\* C1: a login that gets past the blank-field check and matches no record and
\* one that matches a record but fails the password check are answered with
\* the same error: same message, code BAD_USER_INPUT, status 400.
C1_SameMismatchError ==
    /\ \A a, b \in loginErrs : a.err = b.err
    /\ \A a \in loginErrs : /\ a.err.code = "BAD_USER_INPUT"
                            /\ a.err.httpStatus = 400
                            /\ a.err.message # <<>>

\* both kinds of failure have been answered
C1_Witness ==
    /\ \E a \in loginErrs : a.cause = "no_record"
    /\ \E b \in loginErrs : b.cause = "wrong_password"

lastLoginUser == findByCredential(users, last.arg1)

\* C2: login fails with the deactivation message exactly when the record
\* exists, the password verifies and is_active is false; a wrong password on an
\* inactive account gets the credentials-mismatch error; neither gets a token.
C2_DeactivationMessage ==
    last.op = "login" =>
      /\ last.res.err = AccountDeactivated
           <=> /\ lastLoginUser # NoUser
               /\ bcryptCompare(last.arg2, lastLoginUser.password)
               /\ ~lastLoginUser.is_active
      /\ AccountDeactivated # CredentialsMismatch
      /\ ( /\ lastLoginUser # NoUser
           /\ ~lastLoginUser.is_active
           /\ ~requireFieldFails(last.arg2)
           /\ ~bcryptCompare(last.arg2, lastLoginUser.password) )
           => last.res.err = CredentialsMismatch
      /\ (lastLoginUser # NoUser /\ ~lastLoginUser.is_active)
           => /\ last.res.token = GarbageToken
              /\ ~calls(last.res.trace, "jwt.sign")

\* a login with the right password against an inactive account
C2_Witness ==
    /\ last.op = "login"
    /\ lastLoginUser # NoUser
    /\ ~lastLoginUser.is_active
    /\ bcryptCompare(last.arg2, lastLoginUser.password)
    /\ last.res.err = AccountDeactivated

\* C9: the password field of every persisted credential record is a bcrypt
\* hash, never the plaintext that was submitted.
C9_PasswordsAreHashes ==
    \A u \in users : isBcryptHash(u.password)

seedIntact ==
    /\ seedPc = "done"
    /\ \E u \in users : u.username = S_admin /\ u.is_active
    /\ \E u \in users : u.username = S_testuser /\ u.is_active

\* C10: once the seed script has run to completion, login("admin",
\* "Admin1234") and login("testuser", "Test1234") succeed with a token and the
\* account.
C10_SeededLoginsSucceed ==
    ( /\ seedIntact
      /\ last.op = "login"
      /\ \/ last.arg1 = S_admin /\ last.arg2 = S_Admin1234
         \/ last.arg1 = S_testuser /\ last.arg2 = S_Test1234 )
    => /\ last.res.err = NoError
       /\ last.res.token.wellFormed
       /\ last.res.user.username = last.arg1

ProtectedOps ==
    {"getAllEmployees", "searchEmployeeById", "searchEmployeeByDesignationOrDepartment",
     "me", "addEmployee", "updateEmployee", "deleteEmployee"}

\* C3: every protected operation calls requireAuth exactly once and first;
\* with an anonymous identity it fails with Unauthenticated, having made no
\* call to the employee store or the credential store and changed neither.
C3_GateFirst ==
    [][ last'.op \in ProtectedOps =>
          /\ last'.res.trace # <<>>
          /\ last'.res.trace[1] = "requireAuth"
          /\ Cardinality({i \in 1..Len(last'.res.trace) :
                            last'.res.trace[i] = "requireAuth"}) = 1
          /\ last'.ctx.user = NoUser =>
               /\ last'.res.err = unauth
               /\ last'.res.trace = <<"requireAuth">>
               /\ last'.res.emps = <<>>
               /\ UNCHANGED <<boot, employees, nextEmpId, users, nextUserId>> ]_vars

\* an anonymous deleteEmployee of an employee that exists
C3_Witness ==
    /\ last.op = "deleteEmployee"
    /\ last.ctx.user = NoUser
    /\ last.res.err = unauth
    /\ \E e \in employees : e._id = 1

\* C4: requireAuth throws Unauthenticated (UNAUTHENTICATED, 401) when
\* context.user is null, and otherwise returns exactly the account of the
\* context without throwing; Query.me returns what requireAuth returns.
C4_RequireAuth ==
    last.op = "me" =>
      IF last.ctx.user = NoUser
        THEN /\ last.res.err.code = "UNAUTHENTICATED"
             /\ last.res.err.httpStatus = 401
             /\ last.res.user = NoUser
        ELSE /\ last.res.err = NoError
             /\ last.res.user = last.ctx.user

\* the current-account operation answered for an authenticated caller
C4_Witness ==
    /\ last.op = "me"
    /\ last.ctx.user # NoUser
    /\ last.res.user = last.ctx.user
    /\ last.res.user.username = S_alice

\* the token of the last request's header, when the header has the Bearer scheme
lastToken == asToken(bearerToken(last.header))

\* the header of the last request starts with "Bearer " and something other
\* than white space follows
lastHasBearerValue ==
    /\ Len(last.header) >= 2
    /\ last.header[1] = Word("Bearer")
    /\ last.header[2] = Space
    /\ \E i \in 3..Len(last.header) : last.header[i] # Space

signedUnder(t, key) == t.wellFormed /\ t.sig = HS256(key, t.userId, t.iat, t.exp)

\* C5: the context is authenticated exactly when the header starts with
\* "Bearer ", a non-empty token follows, the token is signed under the current
\* secret, its expiry has not elapsed and the record of its subject exists and
\* is active; the account is then that record. Otherwise it is anonymous.
C5_ContextIff ==
    last.op = "me" =>
      /\ last.ctx.user # NoUser
           <=> /\ lastHasBearerValue
               /\ signedUnder(lastToken, secret)
               /\ now < lastToken.exp
               /\ \E u \in users : /\ toHexString(u._id) = lastToken.userId
                                   /\ u.is_active
      /\ last.ctx.user # NoUser
           => \E u \in users : /\ toHexString(u._id) = lastToken.userId
                               /\ last.ctx.user = [u EXCEPT !.password = notSelected]

\* a request authenticated through a header with white space around the token
C5_Witness ==
    /\ last.op = "me"
    /\ last.ctx.user # NoUser
    /\ Len(last.header) > 3

\* C6: a token signToken made for an existing, active account, presented
\* before its expiry and under the same secret, resolves to the account whose
\* id was signed: right after the login that issued it, and in any later
\* request.
C6_IssuedTokenResolves ==
    /\ (last.op = "login" /\ last.res.err = NoError) =>
         buildContext(<<Word("Bearer"), Space, TokenSym(last.res.token)>>,
                      users, secret, now, dbUp).user._id = last.res.user._id
    /\ ( /\ last.op = "me"
         /\ lastHasBearerValue
         /\ lastToken \in issued
         /\ lastToken.sig.key = secret
         /\ now < lastToken.exp
         /\ \E u \in users : toHexString(u._id) = lastToken.userId /\ u.is_active )
       => /\ toHexString(last.ctx.user._id) = lastToken.userId
          /\ last.res.err = NoError

\* an issued token presented after time has passed, and accepted
C6_Witness ==
    /\ last.op = "me"
    /\ lastHasBearerValue
    /\ lastToken \in issued
    /\ now > lastToken.iat
    /\ last.ctx.user # NoUser

\* C7: a request is authenticated as account X only by a token the server
\* signed for X; a token with altered claims or signature resolves to
\* anonymous.
C7_OnlyIssuedTokens ==
    last.op = "me" =>
      /\ last.ctx.user # NoUser
           => /\ lastToken \in issued
              /\ lastToken.userId = toHexString(last.ctx.user._id)
      /\ (lastHasBearerValue /\ lastToken \notin issued) => last.ctx.user = NoUser

\* a token whose subject was replaced by another active account is turned away
C7_Witness ==
    /\ last.op = "me"
    /\ lastHasBearerValue
    /\ lastToken.wellFormed
    /\ lastToken.sig.key = secret
    /\ lastToken.sig.userId # lastToken.userId
    /\ \E u \in users : toHexString(u._id) = lastToken.userId /\ u.is_active
    /\ last.ctx.user = NoUser

\* C8 as stated: the verification of an issued token whose expiry has elapsed
\* fails with the expiry failure, never with the signature failure.
C8_ExpiredNeverSignatureFailure ==
    ( /\ last.op = "me"
      /\ lastHasBearerValue
      /\ lastToken \in issued
      /\ now >= lastToken.exp )
    => last.ctx.diag = "jwt expired"

\* C8 amended: a token signed under the current secret whose expiry has
\* elapsed fails with the expiry failure; the checks run in the order structure,
\* signature, expiry, each failure has its own diagnostic, and each gives the
\* anonymous context.
C8_FailureKinds ==
    (last.op = "me" /\ lastHasBearerValue) =>
      /\ ~lastToken.wellFormed => last.ctx.diag = "jwt malformed"
      /\ (lastToken.wellFormed /\ ~signedUnder(lastToken, secret))
           => last.ctx.diag = "invalid signature"
      /\ (signedUnder(lastToken, secret) /\ now >= lastToken.exp)
           => last.ctx.diag = "jwt expired"
      /\ last.ctx.diag # "" => last.ctx.user = NoUser /\ last.res.err = unauth
      /\ (signedUnder(lastToken, secret) /\ now < lastToken.exp) => last.ctx.diag = ""

\* an issued token presented after its expiry
C8_Witness ==
    /\ last.op = "me"
    /\ lastToken \in issued
    /\ last.ctx.diag = "jwt expired"
    /\ last.ctx.user = NoUser

\* C11: under every interleaving of signups, whose User.findOne and
\* User.create are separate steps, no two persisted credential records share a
\* username or a lower-cased email.
C11_UniqueUnderInterleaving ==
    \A u, v \in users :
      u # v => /\ u._id # v._id
               /\ u.username # v.username
               /\ toLowerCase(u.email) # toLowerCase(v.email)

\* a signup that passed its pre-check and was turned away by the unique index
\* at its User.create, the name being held by a record created in between
C11_Witness ==
    /\ last.op = "signup"
    /\ last.res.trace = <<"User.findOne", "User.create">>
    /\ last.res.err # NoError
    /\ \E u \in users : u.username = trim(last.arg1) \/ u.email = trim(toLowerCase(last.arg2))

\* C12: a signup turned away because a record holds its trimmed username or
\* its lower-cased, trimmed email fails with Conflict (CONFLICT, 409), whether
\* the pre-check or the write found the record.
C12_DuplicateIsConflict ==
    ( /\ last.op = "signup"
      /\ last.res.err # NoError
      /\ last.res.err.code # "BAD_USER_INPUT"
      /\ \E u \in users : \/ u.username = trim(last.arg1)
                          \/ u.email = trim(toLowerCase(last.arg2)) )
    => /\ last.res.err.code = "CONFLICT"
       /\ last.res.err.httpStatus = 409
       /\ last.res.user = NoUser

\* C13: the account in the response of login, signup and me carries no
\* password, hashed or plain; and the account that User.findById loads for the
\* context has no password field.
C13_NoSecretInResults ==
    /\ last.op \in {"login", "signup", "me"} =>
         /\ response(last.res).user.password = notSelected
         /\ ~isBcryptHash(response(last.res).user.password)
    /\ last.ctx.user.password = notSelected

\* a login whose resolver returns the document with the hash loaded
C13_Witness ==
    /\ last.op = "login"
    /\ last.res.err = NoError
    /\ isBcryptHash(last.res.user.password)
    /\ response(last.res).user.username = S_alice

\* the argument is missing, empty or only white space
blankOrMissing(s) == s = Missing \/ \A i \in 1..Len(s) : s[i] = " "

validCredential(h, U, key, clock) ==
    /\ Len(h) >= 2
    /\ h[1] = Word("Bearer")
    /\ h[2] = Space
    /\ \E i \in 3..Len(h) : h[i] # Space
    /\ LET t == asToken(bearerToken(h))
       IN /\ signedUnder(t, key)
          /\ clock < t.exp
          /\ \E u \in U : toHexString(u._id) = t.userId /\ u.is_active

\* C15: whatever the Authorization header of a login or signup request is,
\* buildContext returns without throwing, anonymous unless the header carries
\* a credential, and the operation then gives the outcome it gives with no
\* header at all: the same answer and the same change of the store.
C15_HeaderNeverInterrupts ==
    [][ last'.op \in {"login", "signup"}
        => /\ last'.ctx.err = NoError
           /\ ~validCredential(last'.header, users, secret, now) => last'.ctx.user = NoUser
           /\ (last'.op = "login" /\ Missing \notin {last'.arg1, last'.arg2})
                => /\ last'.res = answered(buildContext(<<>>, users, secret, now, dbUp),
                                           login(users, secret, now, dbUp,
                                                 last'.arg1, last'.arg2))
                   /\ users' = users
           /\ (last'.op = "login" /\ Missing \in {last'.arg1, last'.arg2})
                => /\ last'.res.err.code \in {"BAD_USER_INPUT", "GRAPHQL_VALIDATION_FAILED"}
                   /\ users' = users
           /\ last'.op = "signup"
                => LET err == signupCheck(users, dbUp, last'.arg1, last'.arg2, S_Passw0rd1)
                       r   == signupCreate(users, nextUserId, dbUp, 1,
                                           last'.arg1, last'.arg2, S_Passw0rd1)
                   IN /\ last'.res.err = IF err = NoError THEN r.err ELSE err
                      /\ last'.res.user = IF err = NoError THEN r.user ELSE NoUser
                      /\ users' = IF err = NoError THEN r.users ELSE users ]_vars

\* a login that succeeds although its header carries a token whose expiry was
\* altered after signing
C15_Witness ==
    /\ last.op = "login"
    /\ lastHasBearerValue
    /\ lastToken.wellFormed
    /\ ~signedUnder(lastToken, secret)
    /\ last.ctx.user = NoUser
    /\ last.ctx.diag = "invalid signature"
    /\ last.res.err = NoError
    /\ last.res.user.username = S_alice

\* a login turned away for its password while its header carries an expired
\* token: the expired token changes nothing
C15_WitnessExpired ==
    /\ last.op = "login"
    /\ last.ctx.diag = "jwt expired"
    /\ last.res.err = CredentialsMismatch

\* C16: a store call of a lookup that fails (User.findByCredential in login,
\* User.findById in buildContext) fails the request with an internal error;
\* it is never answered as a credentials mismatch, and the context is never
\* made anonymous for it.
C16_StoreFailurePropagates ==
    /\ (~dbUp /\ last.op = "login" /\ calls(last.res.trace, "User.findByCredential"))
         => /\ last.res.err.code = "INTERNAL_SERVER_ERROR"
            /\ last.res.err # CredentialsMismatch
    /\ (~dbUp /\ calls(last.ctx.trace, "User.findById"))
         => /\ last.ctx.err # NoError
            /\ last.res.err.code = "INTERNAL_SERVER_ERROR"

\* the half of C16 about login: its failing lookup is an internal error
C16_LoginLookupPropagates ==
    (~dbUp /\ last.op = "login" /\ calls(last.res.trace, "User.findByCredential"))
      => /\ last.res.err.code = "INTERNAL_SERVER_ERROR"
         /\ last.res.err # CredentialsMismatch

\* the record signup("alice", "alice@x.com", "Passw0rd1") makes, still active
aliceSignedUp ==
    \E u \in users : /\ u.username = S_alice
                     /\ u.email = S_aliceMail
                     /\ u.is_active

\* C17: end to end, while the store is reachable: on an empty store
\* signup(alice, alice@x.com, Passw0rd1) succeeds; from then on, while the
\* account stays active, login(alice, Passw0rd1) returns a token and the
\* account alice and login(alice, wrong) fails with BadInput; me called with
\* that token before its expiry returns alice, and me called with no header
\* fails with Unauthenticated.
C17_EndToEnd ==
    [][ dbUp =>
        /\ (last'.op = "signup" /\ users = {}
                /\ last'.arg1 = S_alice /\ last'.arg2 = S_aliceMail)
             => /\ last'.res.err = NoError
                /\ last'.res.user.username = S_alice
                /\ users' = {last'.res.user}
                /\ aliceSignedUp'
        /\ (last'.op = "login" /\ aliceSignedUp
                /\ last'.arg1 = S_alice /\ last'.arg2 = S_Passw0rd1)
             => /\ last'.res.err = NoError
                /\ last'.res.user.username = S_alice
                /\ last'.res.token = jwtSign(last'.res.user._id, secret, JWT_EXPIRES_IN, now)
                /\ last'.res.token \in issued'
        /\ (last'.op = "login" /\ aliceSignedUp
                /\ last'.arg1 = S_alice /\ last'.arg2 = S_wrong)
             => /\ last'.res.err.code = "BAD_USER_INPUT"
                /\ last'.res.token = GarbageToken
                /\ issued' = issued
        /\ (last'.op = "me" /\ aliceSignedUp
                /\ \E t \in issued :
                     /\ last'.header = <<Word("Bearer"), Space, TokenSym(t)>>
                     /\ t.userId = toHexString((CHOOSE u \in users : u.username = S_alice)._id)
                     /\ now < t.exp)
             => /\ last'.res.err = NoError
                /\ last'.res.user.username = S_alice
        /\ (last'.op = "me" /\ last'.header = <<>>)
             => /\ last'.res.err = unauth
                /\ last'.res.user = NoUser ]_vars

\* me answered with alice for the token of an earlier login, on a store that
\* holds nothing but the record of alice's signup
C17_Witness ==
    /\ last.op = "me"
    /\ last.res.err = NoError
    /\ last.res.user.username = S_alice
    /\ lastToken \in issued
    /\ users = {u \in users : u.username = S_alice /\ u._id = 1}
    /\ dbUp

\* the last request is a login that got as far as the credential lookup
lastLoginLookedUp ==
    /\ last.op = "login"
    /\ last.ctx.err = NoError
    /\ calls(last.res.trace, "User.findByCredential")

\* the lookup of the last login found a record: only then is the candidate
\* password compared
lastLookupFound == calls(last.res.trace, "bcrypt.compare")

\* C18 as stated: the lookup finds a record exactly when the identifier as
\* given equals a stored username or its lower-cased form equals a stored
\* email.
C18_LookupExact ==
    lastLoginLookedUp
      => (lastLookupFound
            <=> \E u \in users : \/ u.username = last.arg1
                                 \/ u.email = toLowerCase(last.arg1))

\* C18 amended: the lookup finds a record exactly when the identifier, white
\* space around it removed, equals a stored username in the same letter case
\* or, lower-cased, equals a stored email; the record a successful login
\* returns is such a record and carries its password hash, while the record
\* of a context (User.findById) carries none.
C18_LookupTrimmed ==
    /\ lastLoginLookedUp
         => /\ lastLookupFound
                 <=> \E u \in users : \/ u.username = trim(last.arg1)
                                      \/ u.email = toLowerCase(trim(last.arg1))
            /\ last.res.err = NoError
                 => /\ last.res.user \in users
                    /\ \/ last.res.user.username = trim(last.arg1)
                       \/ last.res.user.email = toLowerCase(trim(last.arg1))
                    /\ isBcryptHash(last.res.user.password)
    /\ last.ctx.user # NoUser => last.ctx.user.password = notSelected
    /\ last.op = "me" => last.res.user \notin users

\* a login by the email in upper case finds the account, while the store also
\* holds another one
C18_Witness ==
    /\ lastLoginLookedUp
    /\ last.arg1 = S_AliceMail
    /\ last.res.err = NoError
    /\ last.res.user.username = S_alice
    /\ Cardinality(users) = 2

\* a login by the username in another letter case finds none
C18_WitnessOtherCase ==
    /\ lastLoginLookedUp
    /\ last.arg1 = S_Alice
    /\ last.arg2 = S_Passw0rd1
    /\ ~lastLookupFound
    /\ \E u \in users : u.username = S_alice /\ u.is_active

\* connectDB has returned or ended the process
connectDBTerminated == boot.connected \/ boot.pc = "exited"

\* C19: connectDB makes the first attempt and at most MAX_RETRIES = 5 further
\* ones, makes none after an attempt has succeeded, ends the process with exit
\* code 1 exactly when all six attempts have failed, and always terminates;
\* the server listens, and requests are served, only after a successful
\* connection.
C19_ConnectRetries ==
    /\ [](/\ boot.attempts <= MAX_RETRIES + 1
          /\ boot.attempts + boot.retriesLeft <= MAX_RETRIES + 1
          /\ boot.pc = "exited"
               => /\ boot.attempts = MAX_RETRIES + 1
                  /\ ~boot.connected
                  /\ boot.exitCode = 1
          /\ boot.pc = "listening" => boot.connected
          /\ last.op # "none" => boot.connected /\ boot.pc = "listening")
    /\ [][ /\ connectDBTerminated => boot'.attempts = boot.attempts
           /\ (boot.pc = "connectDB" /\ boot'.pc = "exited")
                => boot.attempts = MAX_RETRIES /\ ~dbUp
           /\ boot.pc = "exited" => boot' = boot /\ last' = last /\ users' = users ]_vars
    /\ <>connectDBTerminated

\* the connection made at the last of the six attempts, and the server serving
\* a request afterwards
C19_Witness ==
    /\ boot.connected
    /\ boot.attempts = MAX_RETRIES + 1
    /\ boot.retriesLeft = 0
    /\ boot.pc = "listening"
    /\ last.op = "signup"

\* the process ended after six failed attempts
C19_WitnessExit ==
    /\ boot.pc = "exited"
    /\ boot.exitCode = 1
    /\ boot.attempts = MAX_RETRIES + 1

\* the optional arguments of an update that carry a value
passedFields(updates) == {f \in UpdateFields : updates[f].k = "value"}

\* the frame of the step that answered an updateEmployee request: the other
\* records stay, none is added or removed, and a call that fails changes
\* nothing
updateFrame ==
    LET eid     == last'.arg1
        updates == last'.arg2
        target  == employeeById(employees, eid)
    IN /\ \A e \in employees : e._id # eid => e \in employees'
       /\ \A e \in employees' : e._id # eid => e \in employees
       /\ {e._id : e \in employees'} = {e._id : e \in employees}
       /\ last'.res.err # NoError => employees' = employees
       /\ last'.res.err = NoError
            => /\ target # NoEmployee
               /\ passedFields(updates) # {}
               /\ \A f \in UpdateFields \ passedFields(updates) :
                    employeeById(employees', eid)[f] = target[f]
               /\ last'.res.emps = <<employeeById(employees', eid)>>

\* C20: updateEmployee changes only the fields of the target that were passed
\* with a value, and leaves the other fields and the other records as they
\* were; a call with no such field, with an id that matches no record or with
\* a value that fails validation fails as BadInput, NotFound or Conflict and
\* changes no record.
C20_UpdateFrame ==
    [][ (last'.op = "updateEmployee" /\ last'.ctx.user # NoUser /\ dbUp)
        => /\ updateFrame
           /\ (\/ passedFields(last'.arg2) = {}
               \/ employeeById(employees, last'.arg1) = NoEmployee)
                => last'.res.err # NoError
           /\ last'.res.err # NoError
                => last'.res.err.code \in {"BAD_USER_INPUT", "NOT_FOUND", "CONFLICT"} ]_vars

\* the frame half of C20 alone, whoever sends the request
C20_FrameOnly ==
    [][ last'.op = "updateEmployee"
        => /\ updateFrame
           /\ (\/ passedFields(last'.arg2) = {}
               \/ employeeById(employees, last'.arg1) = NoEmployee)
                => last'.res.err # NoError ]_vars

\* the salary the request that completes in this step supplies is no number
\* or is below the minimum
suppliesBadSalary ==
    \/ last'.op = "addEmployee" /\ last'.arg2.salary < MIN_SALARY
    \/ /\ last'.op = "updateEmployee"
       /\ \/ last'.arg2.salary.k = "null"
          \/ last'.arg2.salary.k = "value" /\ last'.arg2.salary.n < MIN_SALARY

\* the checks that run before the salary check, and what they answer: no
\* identity, an id that is none or matches no record, an email already in use
failsBeforeSalary ==
    \/ last'.ctx.user = NoUser /\ last'.res.err = unauth
    \/ /\ last'.op = "updateEmployee"
       /\ last'.ctx.user # NoUser
       /\ \/ last'.arg1 = 0 /\ last'.res.err.code = "BAD_USER_INPUT"
          \/ /\ last'.arg1 # 0
             /\ employeeById(employees, last'.arg1) = NoEmployee
             /\ last'.res.err.code = "NOT_FOUND"
          \/ /\ last'.arg2.email.k = "value"
             /\ emailInUse(employees, trim(toLowerCase(last'.arg2.email.s)), last'.arg1)
             /\ last'.res.err.code = "CONFLICT"

C22_AlwaysCompares ==
    (lastLoginLookedUp /\ dbUp) => calls(last.res.trace, "bcrypt.compare")

\* the wrong-password half of C22: a login that found a record compared the
\* candidate with that record's hash before it answered
C22_ComparesWhenFound ==
    (lastLoginLookedUp /\ dbUp /\ findByCredential(users, last.arg1) # NoUser)
      => calls(last.res.trace, "bcrypt.compare")

\* C23: a token comes into being only in a login that succeeds: the record
\* was found by the identifier, the password matched its hash, the record was
\* active, and the subject of the token is the id of that record. No other
\* request signs or returns a token.
C23_TokenOnlyFromLogin ==
    [][ /\ ( \/ issued' # issued
             \/ last'.res.token # GarbageToken
             \/ calls(last'.res.trace, "jwt.sign")
             \/ calls(last'.ctx.trace, "jwt.sign") )
          => /\ last'.op = "login"
             /\ last'.res.err = NoError
             /\ LET user == findByCredential(users, last'.arg1)
                IN /\ user \in users
                   /\ bcryptCompare(last'.arg2, user.password)
                   /\ user.is_active
                   /\ last'.res.user = user
                   /\ last'.res.token.userId = toHexString(user._id)
                   /\ signedUnder(last'.res.token, secret)
             /\ last'.res.trace = <<"User.findByCredential", "bcrypt.compare", "jwt.sign">>
             /\ issued' = issued \cup {last'.res.token}
        /\ (last'.op = "login" /\ last'.res.err # NoError)
             => last'.res.token = GarbageToken /\ issued' = issued ]_vars

\* a login turned away for a deactivated account, with the right password,
\* while the token of an earlier login exists: it issued none
C23_Witness ==
    /\ last.op = "login"
    /\ last.res.err = AccountDeactivated
    /\ last.res.token = GarbageToken
    /\ Cardinality(issued) = 1
    /\ \E u \in users : u.username = S_alice /\ ~u.is_active

\* the calls of context resolution that read and write nothing
ReadCalls == {"jwt.verify", "User.findById"}

\* C24: context resolution is read-only and idempotent: buildContext returns
\* without throwing after calls that only verify and read, a request that
\* does nothing but resolve its context leaves the store and the tokens as
\* they were, and the same header resolved again, the store and the clock
\* unchanged in between, gives the same identity.
C24_ContextReadOnly ==
    [][ last'.op # "none"
        => /\ \A i \in 1..Len(last'.ctx.trace) : last'.ctx.trace[i] \in ReadCalls
           /\ last'.ctx.err = NoError
           /\ last'.op = "me"
                => /\ users' = users
                   /\ issued' = issued
                   /\ employees' = employees
                   /\ pending' = pending
           /\ users' # users => last'.op = "signup"
           /\ issued' # issued => last'.op = "login"
           /\ (last.op \notin {"none", "signup"} /\ last'.header = last.header)
                => /\ last'.ctx = last.ctx
                   /\ last'.op = "me" /\ last.op = "me" => last'.res = last.res ]_vars

\* a context resolved to the account of its token by one verification and one
\* read
C24_Witness ==
    /\ last.op = "me"
    /\ last.ctx.user # NoUser
    /\ last.ctx.user.username = S_alice
    /\ last.ctx.trace = <<"jwt.verify", "User.findById">>
    /\ lastToken \in issued

\* C25: no request deletes a credential record or changes one: across every
\* request the records there were stay as they are, and the only new record
\* is the one a successful signup returns, under an id no record had.
C25_RecordsOnlyGrow ==
    [][ last'.op # "none"
        => /\ users \subseteq users'
           /\ users' # users
                => /\ last'.op = "signup"
                   /\ last'.res.err = NoError
                   /\ users' = users \cup {last'.res.user}
                   /\ \A u \in users : /\ u._id # last'.res.user._id
                                       /\ u.username # last'.res.user.username
                                       /\ u.email # last'.res.user.email ]_vars

\* a signup that overlapped another one for the same username, refused at
\* User.create: the record of the first stays as it was created
C25_Witness ==
    /\ last.op = "signup"
    /\ last.res.err = internalError(<<"E11000 duplicate key">>)
    /\ Cardinality(users) = 1
    /\ \E u \in users : /\ u.username = S_alice
                        /\ u.email # toLowerCase(last.arg2)
                        /\ isBcryptHash(u.password)

====
